---------------------------- MODULE Spec2Model ----------------------------
(***************************************************************************)
(* The session broker of chatkit-starter: POST /api/create-session.        *)
(*                                                                         *)
(* The repository holds four versions of the handler:                      *)
(*   "route"    src/app/api/create-session/route.ts  (no metadata)         *)
(*   "part_000" src/unnamed/part_000  (session.metadata, getUpstreamMessage)*)
(*   "part_001" src/unnamed/part_001  (session.metadata, inline message)   *)
(*   "part_002" src/unnamed/part_002  (top-level metadata, retry fallback) *)
(* The variable `version` selects the one that is deployed.                *)
(*                                                                         *)
(* A string is a sequence of atoms.  Where the code looks inside a string  *)
(* (cookie headers, caller ids, upstream error messages) an atom is one    *)
(* character; a literal the code only passes along is a single atom.       *)
(* A JavaScript value is a record [t, s]: t is its type ("undef", "null",  *)
(* "str", "num", "obj") and s the characters of a string or number.        *)
(***************************************************************************)
EXTENDS Integers, Sequences, FiniteSets, TLC

-----------------------------------------------------------------------------
(* Bounds of the model. *)

\* How many distinct values crypto.randomUUID() can return in a run.
NumIds == 2

-----------------------------------------------------------------------------
(* JavaScript values. *)

Undef == [t |-> "undef", s |-> <<>>]
Null == [t |-> "null", s |-> <<>>]
Str(chars) == [t |-> "str", s |-> chars]
Num(digits) == [t |-> "num", s |-> digits]

\* v is null or undefined: the left operand test of `??` and `?.`.
IsNullish(v) == v.t \in {"undef", "null"}

\* a ?? b
Coalesce(a, b) == IF IsNullish(a) THEN b ELSE a

\* ToBoolean(v), for the value shapes of this model.
Truthy(v) ==
  CASE v.t \in {"undef", "null"} -> FALSE
    [] v.t = "str" -> v.s # <<>>
    [] v.t = "num" -> v.s # <<"0">>
    [] OTHER -> TRUE

\* typeof v === "string"
IsString(v) == v.t = "str"

-----------------------------------------------------------------------------
(* String primitives. *)

RECURSIVE Rep(_, _)
Rep(c, n) == IF n = 0 THEN <<>> ELSE <<c>> \o Rep(c, n - 1)

\* String.prototype.split(sep) for a one-character separator.
RECURSIVE Split(_, _)
Split(str, sep) ==
  IF \A i \in 1..Len(str) : str[i] # sep
  THEN <<str>>
  ELSE LET k == CHOOSE i \in 1..Len(str) :
                  str[i] = sep /\ \A j \in 1..(i - 1) : str[j] # sep
       IN <<SubSeq(str, 1, k - 1)>> \o Split(SubSeq(str, k + 1, Len(str)), sep)

\* Array.prototype.join(sep).
RECURSIVE Join(_, _)
Join(parts, sep) ==
  IF parts = <<>> THEN <<>>
  ELSE IF Len(parts) = 1 THEN parts[1]
  ELSE parts[1] \o sep \o Join(Tail(parts), sep)

WhiteSpace == {" "}

\* String.prototype.trim().
RECURSIVE TrimStart(_)
TrimStart(str) ==
  IF str # <<>> /\ Head(str) \in WhiteSpace THEN TrimStart(Tail(str)) ELSE str

RECURSIVE TrimEnd(_)
TrimEnd(str) ==
  IF str # <<>> /\ str[Len(str)] \in WhiteSpace
  THEN TrimEnd(SubSeq(str, 1, Len(str) - 1))
  ELSE str

\* Faulty variant: the string is not trimmed.
Trim_None(str) == str

Trim(str) == TrimEnd(TrimStart(str))

UpperCase == <<"A","B","C","D","E","F","G","H","I","J","K","L","M",
               "N","O","P","Q","R","S","T","U","V","W","X","Y","Z">>
LowerCase == <<"a","b","c","d","e","f","g","h","i","j","k","l","m",
               "n","o","p","q","r","s","t","u","v","w","x","y","z">>
Digits == <<"0","1","2","3","4","5","6","7","8","9">>

\* String.prototype.toLowerCase().
ToLowerCase(str) ==
  [i \in 1..Len(str) |->
     IF \E k \in 1..Len(UpperCase) : UpperCase[k] = str[i]
     THEN LowerCase[CHOOSE k \in 1..Len(UpperCase) : UpperCase[k] = str[i]]
     ELSE str[i]]

\* String.prototype.includes(needle).
Includes(str, needle) ==
  \E i \in 0..(Len(str) - Len(needle)) :
     SubSeq(str, i + 1, i + Len(needle)) = needle

\* The decimal digits of a natural number, as a template literal prints it.
RECURSIVE ToDecimal(_)
ToDecimal(n) ==
  IF n < 10 THEN <<Digits[n + 1]>>
  ELSE ToDecimal(n \div 10) \o <<Digits[(n % 10) + 1]>>

\* Characters encodeURIComponent leaves alone.
UriUnreserved ==
  {UpperCase[k] : k \in 1..Len(UpperCase)} \cup
  {LowerCase[k] : k \in 1..Len(LowerCase)} \cup
  {Digits[k] : k \in 1..Len(Digits)} \cup
  {"-", "_", ".", "!", "~", "*", "'", "(", ")"}

\* The %XX escape of an ASCII character outside UriUnreserved.
PercentEscape(c) ==
  CASE c = " " -> <<"%","2","0">>
    [] c = "%" -> <<"%","2","5">>
    [] c = "/" -> <<"%","2","F">>
    [] c = ":" -> <<"%","3","A">>
    [] c = ";" -> <<"%","3","B">>
    [] c = "=" -> <<"%","3","D">>
    [] c = "?" -> <<"%","3","F">>

RECURSIVE encodeURIComponent(_)
encodeURIComponent(str) ==
  IF str = <<>> THEN <<>>
  ELSE (IF Head(str) \in UriUnreserved THEN <<Head(str)>> ELSE PercentEscape(Head(str)))
       \o encodeURIComponent(Tail(str))

-----------------------------------------------------------------------------
(* Program constants. *)

\* "chatkit_session_id"
SESSION_COOKIE_NAME ==
  <<"c","h","a","t","k","i","t","_","s","e","s","s","i","o","n","_","i",
    "d">>
SESSION_COOKIE_MAX_AGE == 60 * 60 * 24 * 30

\* Literals the code never looks inside are strings of one atom.
MSG_MISSING_KEY_LONG == <<"Missing OPENAI_API_KEY environment variable">>
MSG_MISSING_KEY_SHORT == <<"Missing OPENAI_API_KEY">>
MSG_MISSING_WORKFLOW == <<"Missing workflow id">>
MSG_UNEXPECTED == <<"Unexpected error">>
MSG_UPSTREAM_ERROR == <<"Upstream error">>

\* The two needles of looksLikeUnknownMetadata.
NEEDLE_UNKNOWN_PARAMETER ==
  <<"u","n","k","n","o","w","n"," ","p","a","r","a","m","e","t","e","r">>
NEEDLE_METADATA == <<"m","e","t","a","d","a","t","a">>

Versions == {"route", "part_000", "part_001", "part_002"}

-----------------------------------------------------------------------------
(* Cookies. *)

\* The body of the for loop of getCookieValue, from the i-th cookie on.
RECURSIVE CookieScan(_, _, _)
CookieScan(cookies, i, name) ==
  IF i > Len(cookies) THEN Null
  ELSE LET parts == Split(cookies[i], "=")
           rawName == parts[1]
           rest == Tail(parts)
       IN IF rawName = <<>> \/ Len(rest) = 0 THEN CookieScan(cookies, i + 1, name)
          ELSE IF Trim(rawName) = name THEN Str(Trim(Join(rest, <<"=">>)))
          ELSE CookieScan(cookies, i + 1, name)

\* A variant of getCookieValue in which the last cookie of the name wins.
getCookieValue_LastWins(cookieHeader, name) ==
  IF ~Truthy(cookieHeader) THEN Null
  ELSE LET cookies == Split(cookieHeader.s, ";")
       IN CookieScan([k \in 1..Len(cookies) |-> cookies[Len(cookies) + 1 - k]], 1, name)

getCookieValue(cookieHeader, name) ==
  IF ~Truthy(cookieHeader) THEN Null
  ELSE CookieScan(Split(cookieHeader.s, ";"), 1, name)

\* Faulty variant: Secure is pushed whatever NODE_ENV is.
serializeSessionCookie_AlwaysSecure(value, nodeEnv) ==
  Join(<< SESSION_COOKIE_NAME \o <<"=">> \o encodeURIComponent(value),
          <<"P","a","t","h","=","/">>,
          <<"M","a","x","-","A","g","e","=">> \o ToDecimal(SESSION_COOKIE_MAX_AGE),
          <<"H","t","t","p","O","n","l","y">>,
          <<"S","a","m","e","S","i","t","e","=","L","a","x">>,
          <<"S","e","c","u","r","e">> >>,
       <<";", " ">>)

serializeSessionCookie(value, nodeEnv) ==
  LET attributes ==
        << SESSION_COOKIE_NAME \o <<"=">> \o encodeURIComponent(value),
           <<"P","a","t","h","=","/">>,
           <<"M","a","x","-","A","g","e","=">> \o ToDecimal(SESSION_COOKIE_MAX_AGE),
           <<"H","t","t","p","O","n","l","y">>,
           <<"S","a","m","e","S","i","t","e","=","L","a","x">> >>
      pushed == IF nodeEnv = "production"
                THEN Append(attributes, <<"S","e","c","u","r","e">>)
                ELSE attributes
  IN Join(pushed, <<";", " ">>)

\* crypto.randomUUID(): the i-th version-4 UUID of the model.
RandomUUID(i) ==
  LET h == LowerCase[i]
  IN Rep(h, 8) \o <<"-">> \o Rep(h, 4) \o <<"-", "4">> \o Rep(h, 3)
     \o <<"-", "8">> \o Rep(h, 3) \o <<"-">> \o Rep(h, 12)

\* Math.random().toString(36).slice(2): a base-36 fraction.
RandomBase36(i) == <<"0">> \o Rep(LowerCase[26 - i], 9) \o <<Digits[i + 1]>>

\* `export const runtime = "edge"`: the Edge runtime provides crypto.randomUUID.
CryptoHasRandomUUID == TRUE

\* Faulty variant: the cookie is serialised from a second call of the random
\* source, not from the id returned as userId.
resolveUserId_SecondDraw(cookieHeader, nodeEnv, i) ==
  LET existing == getCookieValue(cookieHeader, SESSION_COOKIE_NAME)
      other == IF i = 1 THEN 2 ELSE 1
  IN IF Truthy(existing)
     THEN [userId |-> existing.s, sessionCookie |-> Null]
     ELSE [userId |-> RandomUUID(i),
           sessionCookie |-> Str(serializeSessionCookie(RandomUUID(other), nodeEnv))]

\* Faulty variant: a cookie is serialised for the id of the request's cookie
\* too.
resolveUserId_AlwaysCookie(cookieHeader, nodeEnv, i) ==
  LET existing == getCookieValue(cookieHeader, SESSION_COOKIE_NAME)
      generated == IF CryptoHasRandomUUID THEN RandomUUID(i) ELSE RandomBase36(i)
      userId == IF Truthy(existing) THEN existing.s ELSE generated
  IN [userId |-> userId,
      sessionCookie |-> Str(serializeSessionCookie(userId, nodeEnv))]

\* resolveUserId, with the outcome i of the random source.
resolveUserId(cookieHeader, nodeEnv, i) ==
  LET existing == getCookieValue(cookieHeader, SESSION_COOKIE_NAME)
      generated == IF CryptoHasRandomUUID THEN RandomUUID(i) ELSE RandomBase36(i)
  IN IF Truthy(existing)
     THEN [userId |-> existing.s, sessionCookie |-> Null]
     ELSE [userId |-> generated,
           sessionCookie |-> Str(serializeSessionCookie(generated, nodeEnv))]

-----------------------------------------------------------------------------
(* Objects, request bodies and upstream bodies. *)

\* v.f for a v that is not nullish: undefined when v has no such property.
Prop(v, f) == IF v.t = "obj" /\ f \in DOMAIN v THEN v[f] ELSE Undef

\* v?.f
OptProp(v, f) == IF IsNullish(v) THEN Undef ELSE Prop(v, f)

\* a || b
Or(a, b) == IF Truthy(a) THEN a ELSE b

\* {}
EmptyObject == [t |-> "obj"]

\* A body on the wire has a form: "empty", "malformed" (text that is not
\* JSON) or "json" (the text of a JSON value); JSON.parse of the last gives
\* that value and throws on the others.

\* safeParseJson: null for an empty body and when JSON.parse throws.
safeParseJson(body) ==
  IF body.form = "empty" THEN Null
  ELSE IF body.form = "malformed" THEN Null
  ELSE body.value

\* Faulty variant: a text that JSON.parse rejects yields null, as in
\* safeParseJson.
parseJsonSafe_Null(body) ==
  IF body.form = "empty" THEN EmptyObject
  ELSE IF body.form = "malformed" THEN Null
  ELSE body.value

\* parseJsonSafe of part_000 and the inline try/catch of part_001: {} for an
\* empty text and when JSON.parse throws.
parseJsonSafe(body) ==
  IF body.form = "empty" THEN EmptyObject
  ELSE IF body.form = "malformed" THEN EmptyObject
  ELSE body.value

\* upstreamResponse.json().catch(() => ({})) of route.ts and part_002.
JsonOrEmpty(body) == IF body.form = "json" THEN body.value ELSE EmptyObject

\* Faulty variant: the body's messages are ignored.
getUpstreamMessage_TextOnly(body, fallbackText) ==
  Or(Str(fallbackText), Str(MSG_UPSTREAM_ERROR))

\* Faulty variant: error.message is checked before the top-level message.
getUpstreamMessage_ErrorFirst(body, fallbackText) ==
  LET message == Prop(body, "message")
      error == Prop(body, "error")
  IN IF Truthy(error) /\ IsString(Prop(error, "message"))
        /\ Truthy(Prop(error, "message"))
     THEN Prop(error, "message")
     ELSE IF IsString(message) /\ Truthy(message) THEN message
     ELSE Or(Str(fallbackText), Str(MSG_UPSTREAM_ERROR))

\* getUpstreamMessage of part_000, for a body that is not nullish.
getUpstreamMessage(body, fallbackText) ==
  LET message == Prop(body, "message")
      error == Prop(body, "error")
  IN IF IsString(message) /\ Truthy(message) THEN message
     ELSE IF Truthy(error) /\ IsString(Prop(error, "message"))
             /\ Truthy(Prop(error, "message"))
     THEN Prop(error, "message")
     ELSE Or(Str(fallbackText), Str(MSG_UPSTREAM_ERROR))

\* The `error` expression of part_001:
\* jsonResp?.error?.message || jsonResp?.message || "Upstream error".
InlineUpstreamMessage(jsonResp) ==
  Or(Or(OptProp(OptProp(jsonResp, "error"), "message"), OptProp(jsonResp, "message")),
     Str(MSG_UPSTREAM_ERROR))

\* extractMessage of part_002.
extractMessage(payload) ==
  IF ~Truthy(payload) THEN <<>>
  ELSE IF IsString(Prop(payload, "message")) THEN Prop(payload, "message").s
  ELSE LET err == Prop(payload, "error")
       IN IF ~Truthy(err) THEN <<>>
          ELSE IF IsString(err) THEN err.s
          ELSE IF IsString(Prop(err, "message")) THEN Prop(err, "message").s
          ELSE <<>>

\* Faulty variant: the message is searched as it is written.
looksLikeUnknownMetadata_CaseSensitive(status, upstreamJson) ==
  LET maybeErrorMsg == extractMessage(upstreamJson)
  IN /\ status = 400
     /\ Includes(maybeErrorMsg, NEEDLE_UNKNOWN_PARAMETER)
     /\ Includes(maybeErrorMsg, NEEDLE_METADATA)

\* looksLikeUnknownMetadata of part_002.
looksLikeUnknownMetadata(status, upstreamJson) ==
  LET maybeErrorMsg == extractMessage(upstreamJson)
  IN /\ status = 400
     /\ Includes(ToLowerCase(maybeErrorMsg), NEEDLE_UNKNOWN_PARAMETER)
     /\ Includes(ToLowerCase(maybeErrorMsg), NEEDLE_METADATA)

\* Response.ok
Ok(status) == status \in 200..299

-----------------------------------------------------------------------------
(* The handler POST, cut at its awaits of fetch. *)

\* buildJsonResponse of route.ts, json of the other versions: the response,
\* with a Set-Cookie header when sessionCookie is a non-empty string.
buildJsonResponse(payload, status, sessionCookie) ==
  [status |-> status,
   body |-> payload,
   setCookie |-> IF Truthy(sessionCookie) THEN sessionCookie ELSE Null]

\* The message of the missing-credential response.
MissingKeyMessage(v) ==
  IF v \in {"route", "part_002"} THEN MSG_MISSING_KEY_LONG ELSE MSG_MISSING_KEY_SHORT

\* Faulty variant: body.workflowId is consulted before body.workflow.id.
ResolveWorkflowId_Swapped(parsedBody, configured) ==
  Coalesce(Coalesce(OptProp(parsedBody, "workflowId"),
                    OptProp(OptProp(parsedBody, "workflow"), "id")),
           Str(configured))

\* Faulty variant: the configured WORKFLOW_ID is not fallen back to.
ResolveWorkflowId_NoDefault(parsedBody, configured) ==
  Coalesce(OptProp(OptProp(parsedBody, "workflow"), "id"),
           OptProp(parsedBody, "workflowId"))

\* Faulty variant: an empty string falls through to the next source too
\* (|| in place of ??).
ResolveWorkflowId_FalsyFallsThrough(parsedBody, configured) ==
  Or(Or(OptProp(OptProp(parsedBody, "workflow"), "id"),
        OptProp(parsedBody, "workflowId")),
     Str(configured))

\* body?.workflow?.id ?? body?.workflowId ?? WORKFLOW_ID
ResolveWorkflowId(parsedBody, configured) ==
  Coalesce(Coalesce(OptProp(OptProp(parsedBody, "workflow"), "id"),
                    OptProp(parsedBody, "workflowId")),
           Str(configured))

\* body?.episodeCode ?? null, and so on; route.ts does not read these fields.
EpisodeField(v, parsedBody, f) ==
  IF v = "route" THEN Null ELSE Coalesce(OptProp(parsedBody, f), Null)

\* Faulty variant: only the episode code counts.
HasEpisode_CodeOnly(l) == Truthy(l.episodeCode)

\* episodeCode || title || mp3
HasEpisode(l) == Truthy(l.episodeCode) \/ Truthy(l.title) \/ Truthy(l.mp3)

EpisodeMetadata(l) ==
  [t |-> "obj", episodeCode |-> l.episodeCode, title |-> l.title, mp3 |-> l.mp3]

\* The value passed to JSON.stringify for the attempt-th upstream POST; a
\* property that is undefined is left out of the request.
UpstreamPayload(v, l, attempt) ==
  [workflow |-> [t |-> "obj", id |-> l.resolvedWorkflowId],
   user |-> Str(l.userId),
   metadata |->
     IF v = "part_002" /\ attempt = 1 /\ HasEpisode(l)
     THEN EpisodeMetadata(l) ELSE Undef,
   session |->
     IF /\ v \in {"part_000", "part_001"} \/ (v = "part_002" /\ attempt = 2)
        /\ HasEpisode(l)
     THEN [t |-> "obj", metadata |-> EpisodeMetadata(l)] ELSE Undef]

\* Faulty variant: the catch block answers without the Set-Cookie header.
CatchAll_NoCookie(sessionCookie) ==
  buildJsonResponse([error |-> Str(MSG_UNEXPECTED)], 500, Null)

\* The catch block of POST.
CatchAll(sessionCookie) ==
  buildJsonResponse([error |-> Str(MSG_UNEXPECTED)], 500, sessionCookie)

NoLocals == [t |-> "none"]
NoResponse == [t |-> "none"]

\* Faulty variant: only an unset variable counts as missing, so an empty
\* OPENAI_API_KEY passes the check.
MissingApiKey_UndefinedOnly(openaiApiKey) == openaiApiKey.t = "undef"

\* if (!openaiApiKey)
MissingApiKey(openaiApiKey) == ~Truthy(openaiApiKey)

\* Faulty variant: only null and undefined count as missing (=== undefined,
\* == null), so an empty string passes the check.
MissingWorkflowId_NullishOnly(resolvedWorkflowId) == IsNullish(resolvedWorkflowId)

\* if (!resolvedWorkflowId)
MissingWorkflowId(resolvedWorkflowId) == ~Truthy(resolvedWorkflowId)

\* POST from its first line to the first fetch, for the random outcome i:
\* either a response, or the handler waiting for its first upstream reply.
HandleRequest(v, e, r, i) ==
  IF MissingApiKey(e.apiKey)
  THEN [pc |-> "responded", local |-> NoLocals, calls |-> <<>>,
        log |-> <<"apiKey">>,
        resp |-> buildJsonResponse([error |-> Str(MissingKeyMessage(v))], 500, Null)]
  ELSE
    LET parsedBody == safeParseJson(r.body)
        u == resolveUserId(r.cookie, e.nodeEnv, i)
        l == [userId |-> u.userId,
              sessionCookie |-> u.sessionCookie,
              resolvedWorkflowId |-> ResolveWorkflowId(parsedBody, e.workflowId),
              episodeCode |-> EpisodeField(v, parsedBody, "episodeCode"),
              title |-> EpisodeField(v, parsedBody, "title"),
              mp3 |-> EpisodeField(v, parsedBody, "mp3")]
    IN IF MissingWorkflowId(l.resolvedWorkflowId)
       THEN [pc |-> "responded", local |-> l, calls |-> <<>>,
             log |-> <<"apiKey", "safeParseJson", "resolveUserId", "workflowId">>,
             resp |-> buildJsonResponse([error |-> Str(MSG_MISSING_WORKFLOW)], 400,
                                        l.sessionCookie)]
       ELSE [pc |-> "fetching", local |-> l, calls |-> <<UpstreamPayload(v, l, 1)>>,
             log |-> <<"apiKey", "safeParseJson", "resolveUserId", "workflowId",
                       "fetch">>,
             resp |-> NoResponse]

\* Faulty variant: the two fields are passed on without `?? null`.
SessionResponse_NoNull(upstreamJson, sessionCookie) ==
  buildJsonResponse(
    [client_secret |-> OptProp(upstreamJson, "client_secret"),
     expires_after |-> OptProp(upstreamJson, "expires_after")],
    200, sessionCookie)

\* The session response of every version.
SessionResponse(upstreamJson, sessionCookie) ==
  buildJsonResponse(
    [client_secret |-> Coalesce(OptProp(upstreamJson, "client_secret"), Null),
     expires_after |-> Coalesce(OptProp(upstreamJson, "expires_after"), Null)],
    200, sessionCookie)

\* Faulty variant: part_002 retries after every attempt that fails this way.
Retries_Unbounded(v, attempt, reply) ==
  /\ v = "part_002"
  /\ ~Ok(reply.status)
  /\ looksLikeUnknownMetadata(reply.status, JsonOrEmpty(reply.body))

\* part_002 retries exactly after its first attempt.
Retries(v, attempt, reply) ==
  /\ v = "part_002"
  /\ attempt = 1
  /\ ~Ok(reply.status)
  /\ looksLikeUnknownMetadata(reply.status, JsonOrEmpty(reply.body))

\* POST from the reply to its attempt-th fetch to its return, when it does
\* not retry.
HandleReply(v, l, reply) ==
  CASE v \in {"route", "part_002"} ->
         LET upstreamJson == JsonOrEmpty(reply.body)
         IN IF ~Ok(reply.status)
            THEN buildJsonResponse([error |-> upstreamJson], reply.status,
                                   l.sessionCookie)
            ELSE SessionResponse(upstreamJson, l.sessionCookie)
    [] v = "part_000" ->
         LET parsed == parseJsonSafe(reply.body)
         IN IF IsNullish(parsed)
            \* body.message and parsed.client_secret throw a TypeError
            THEN CatchAll(l.sessionCookie)
            ELSE IF ~Ok(reply.status)
            THEN buildJsonResponse(
                   [error |-> getUpstreamMessage(parsed, reply.body.text),
                    details |-> Or(parsed, Str(reply.body.text))],
                   reply.status, l.sessionCookie)
            ELSE SessionResponse(parsed, l.sessionCookie)
    [] v = "part_001" ->
         LET jsonResp == parseJsonSafe(reply.body)
         IN IF ~Ok(reply.status)
            THEN buildJsonResponse(
                   [error |-> InlineUpstreamMessage(jsonResp),
                    details |-> Or(jsonResp, Str(reply.body.text))],
                   reply.status, l.sessionCookie)
            ELSE SessionResponse(jsonResp, l.sessionCookie)

-----------------------------------------------------------------------------
(* The environment: deployments, the browser and the upstream API. *)

\* process.env and lib/config of a deployment.
Environments ==
  [apiKey : {Undef, Str(<<>>), Str(<<"sk-key">>)},
   nodeEnv : {"production", "development"},
   workflowId : {<<>>, <<"wf_env">>}]

\* The `workflow` property of a request body.
WorkflowChoices ==
  {Undef, Null} \cup
  {[t |-> "obj", id |-> id] : id \in {Undef, Null, Str(<<>>), Str(<<"wf_body">>)}}

\* The `workflowId` property of a request body.
WorkflowIdChoices == {Undef, Null, Str(<<>>), Str(<<"wf_alt">>)}

RequestObject(workflow, workflowId, episodeCode, title, mp3) ==
  [t |-> "obj", workflow |-> workflow, workflowId |-> workflowId,
   episodeCode |-> episodeCode, title |-> title, mp3 |-> mp3]

\* The request bodies of the model: no body, text that is not JSON, JSON
\* that is not an object, every combination of the two workflow properties,
\* and the bodies the panel sends with an episode context.
RequestBodies ==
  {[form |-> "empty", value |-> Undef],
   [form |-> "malformed", value |-> Undef],
   [form |-> "json", value |-> Null],
   [form |-> "json", value |-> Num(<<"5">>)]}
  \cup
  {[form |-> "json", value |-> RequestObject(w, wid, Undef, Undef, Undef)] :
     w \in WorkflowChoices, wid \in WorkflowIdChoices}
  \cup
  {[form |-> "json",
    value |-> RequestObject([t |-> "obj", id |-> Str(<<"wf_body">>)], Undef,
                            ep[1], ep[2], ep[3])] :
     ep \in {<<Str(<<"E1">>), Str(<<"T1">>), Str(<<"M1">>)>>,
             <<Str(<<"E1">>), Undef, Undef>>,
             <<Str(<<>>), Str(<<"T1">>), Null>>}}

\* A cookie of another name that the browser holds for the site.
OtherCookie == <<"t","h","e","m","e","=","d","a","r","k">>

\* A caller id the browser holds from before the run.
LegacyId == <<"u","=","1">>

SessionPair(value) == SESSION_COOKIE_NAME \o <<"=">> \o value

\* The Cookie headers a browser whose jar holds `jar` for chatkit_session_id
\* sends: its cookies joined by "; ", or no header when it has none.
CookieHeaders(jar) ==
  IF jar = Null
  THEN {Null, Str(OtherCookie), Str(SessionPair(<<>>))}
  ELSE {Str(SessionPair(jar.s)),
        Str(Join(<<OtherCookie, SessionPair(jar.s)>>, <<";", " ">>)),
        Str(Join(<<SessionPair(jar.s), OtherCookie>>, <<";", " ">>))}

\* What the browser stores from a Set-Cookie header: the value of its
\* name=value pair, up to the first ";".
StoredValue(setCookie) == Join(Tail(Split(Split(setCookie, ";")[1], "=")), <<"=">>)

UpstreamObject(message, error, client_secret, expires_after) ==
  [t |-> "obj", message |-> message, error |-> error,
   client_secret |-> client_secret, expires_after |-> expires_after]

ErrorObject(message) == [t |-> "obj", message |-> message]

UnknownMetadataMessage ==
  <<"U","n","k","n","o","w","n"," ","p","a","r","a","m","e","t","e","r",":"," ",
    "'","m","e","t","a","d","a","t","a","'",".">>

JsonBody(text, value) == [form |-> "json", text |-> text, value |-> value]

OkBodies ==
  {JsonBody(<<"{\"client_secret\":\"sk_abc\",\"expires_after\":123}">>,
            UpstreamObject(Undef, Undef, Str(<<"sk_abc">>), Num(<<"123">>))),
   JsonBody(<<"{\"expires_after\":123}">>,
            UpstreamObject(Undef, Undef, Undef, Num(<<"123">>))),
   JsonBody(<<"{\"client_secret\":\"sk_abc\"}">>,
            UpstreamObject(Undef, Undef, Str(<<"sk_abc">>), Undef))}

ErrorBodies ==
  {JsonBody(<<"{\"error\":{\"message\":\"boom\"}}">>,
            UpstreamObject(Undef, ErrorObject(Str(<<"b","o","o","m">>)), Undef, Undef)),
   JsonBody(<<"{\"message\":\"top\",\"error\":{\"message\":\"boom\"}}">>,
            UpstreamObject(Str(<<"t","o","p">>), ErrorObject(Str(<<"b","o","o","m">>)),
                           Undef, Undef)),
   JsonBody(<<"{\"message\":\"\",\"error\":{\"message\":\"boom\"}}">>,
            UpstreamObject(Str(<<>>), ErrorObject(Str(<<"b","o","o","m">>)),
                           Undef, Undef)),
   JsonBody(<<"{\"error\":{\"message\":\"Unknown parameter: 'metadata'.\"}}">>,
            UpstreamObject(Undef, ErrorObject(Str(UnknownMetadataMessage)), Undef, Undef)),
   JsonBody(<<"{\"error\":\"plain\"}">>,
            UpstreamObject(Undef, Str(<<"p","l","a","i","n">>), Undef, Undef)),
   JsonBody(<<"{\"error\":{\"code\":\"x\"}}">>,
            UpstreamObject(Undef, ErrorObject(Undef), Undef, Undef))}

OddBodies ==
  {JsonBody(<<"{}">>, UpstreamObject(Undef, Undef, Undef, Undef)),
   JsonBody(<<"null">>, Null),
   [form |-> "malformed", text |-> <<"<html>">>, value |-> Undef],
   [form |-> "empty", text |-> <<>>, value |-> Undef]}

\* The replies of the upstream API: a status and a body.
UpstreamReplies ==
  [status : {200}, body : OkBodies \cup OddBodies]
  \cup [status : {201}, body : OkBodies]
  \cup [status : {400}, body : ErrorBodies \cup OddBodies]
  \cup [status : {503}, body : ErrorBodies]

-----------------------------------------------------------------------------
(* The state machine. *)

VARIABLES
  version,    \* the deployed version of the handler
  env,        \* its environment
  jar,        \* the browser's chatkit_session_id cookie, or Null
  issued,     \* the caller id the handler generated for the cookie in jar
  pc,         \* "idle", "received", "fetching", "responded"
  req,        \* the request in progress
  local,      \* the handler's local variables
  calls,      \* the upstream POSTs made for the request, in order
  log,        \* the steps the handler has taken for the request
  reply,      \* the reply to the last upstream POST, NoReply if none came
  resp        \* the handler's response

\* The panel component ChatKitPanel, its browser, its widget and its host.
VARIABLES
  panelVersion,  \* the version of the component that is rendered
  panelConfig,   \* lib/config as the component imports it
  panel,         \* the component's state and refs, under their names
  browser,       \* customElements, the script effect's listeners and timer
  widget,        \* the vendor widget: its getClientSecret call, its secret
  host           \* what the host's callbacks and the widget were handed, and
                 \* how many facts the host had when the widget's thread
                 \* and the widget itself last changed

brokerVars == <<version, env, jar, issued, pc, req, local, calls, log, reply, resp>>
panelVars == <<panelVersion, panelConfig, panel, browser, widget, host>>
vars == <<brokerVars, panelVars>>

\* The value of a panel variable in the runs of the broker alone.
NoPanel == [t |-> "none"]

\* No panel is rendered: the requests come from any client.
PanelAbsent ==
  /\ panelVersion = "none"
  /\ panelConfig = NoPanel
  /\ panel = NoPanel
  /\ browser = NoPanel
  /\ widget = NoPanel
  /\ host = NoPanel

NoRequest == [t |-> "none"]
NoReply == [t |-> "none"]

Init ==
  /\ version \in Versions
  /\ env \in Environments
  /\ jar \in {Null, Str(LegacyId)}
  /\ issued = Null
  /\ pc = "idle"
  /\ req = NoRequest
  /\ local = NoLocals
  /\ calls = <<>>
  /\ log = <<>>
  /\ reply = NoReply
  /\ resp = NoResponse
  /\ PanelAbsent

\* The browser sends a POST with its cookies.
ClientSend ==
  /\ pc = "idle"
  /\ \E cookie \in CookieHeaders(jar), body \in RequestBodies :
       req' = [cookie |-> cookie, body |-> body]
  /\ pc' = "received"
  /\ UNCHANGED <<version, env, jar, issued, local, calls, log, reply, resp>>
  /\ UNCHANGED panelVars

\* POST runs up to its first await of fetch, or to its return.
Receive ==
  /\ pc = "received"
  /\ \E i \in 1..NumIds :
       LET h == HandleRequest(version, env, req, i)
       IN /\ pc' = h.pc
          /\ local' = h.local
          /\ calls' = h.calls
          /\ log' = h.log
          /\ resp' = h.resp
  /\ UNCHANGED <<version, env, jar, issued, req, reply>>
  /\ UNCHANGED panelVars

\* The upstream API replies and POST runs on: part_002 retries with the
\* session.metadata shape.
UpstreamRetry ==
  /\ pc = "fetching"
  /\ \E r \in UpstreamReplies :
       /\ Retries(version, Len(calls), r)
       /\ reply' = r
  /\ calls' = Append(calls, UpstreamPayload(version, local, 2))
  /\ log' = Append(log, "fetch")
  /\ UNCHANGED <<version, env, jar, issued, pc, req, local, resp>>
  /\ UNCHANGED panelVars

\* The upstream API replies and POST runs to its return.
UpstreamReply ==
  /\ pc = "fetching"
  /\ \E r \in UpstreamReplies :
       /\ ~Retries(version, Len(calls), r)
       /\ reply' = r
       /\ resp' = HandleReply(version, local, r)
  /\ pc' = "responded"
  /\ UNCHANGED <<version, env, jar, issued, req, local, calls, log>>
  /\ UNCHANGED panelVars

\* fetch rejects (the network fails): the catch block answers.
FetchThrows ==
  /\ pc = "fetching"
  /\ resp' = CatchAll(local.sessionCookie)
  /\ reply' = NoReply
  /\ pc' = "responded"
  /\ UNCHANGED <<version, env, jar, issued, req, local, calls, log>>
  /\ UNCHANGED panelVars

\* The browser takes the response and stores the cookie it sets; the request
\* is over.
ClientReceive ==
  /\ pc = "responded"
  /\ IF resp.setCookie # Null
     THEN /\ jar' = Str(StoredValue(resp.setCookie.s))
          /\ issued' = Str(local.userId)
     ELSE UNCHANGED <<jar, issued>>
  /\ pc' = "idle"
  /\ req' = NoRequest
  /\ local' = NoLocals
  /\ calls' = <<>>
  /\ log' = <<>>
  /\ reply' = NoReply
  /\ resp' = NoResponse
  /\ UNCHANGED <<version, env>>
  /\ UNCHANGED panelVars

\* The cookie's Max-Age runs out.
CookieExpires ==
  /\ pc = "idle"
  /\ jar # Null
  /\ jar' = Null
  /\ issued' = Null
  /\ UNCHANGED <<version, env, pc, req, local, calls, log, reply, resp>>
  /\ UNCHANGED panelVars

Next ==
  \/ ClientSend
  \/ Receive
  \/ UpstreamRetry
  \/ UpstreamReply
  \/ FetchThrows
  \/ ClientReceive
  \/ CookieExpires

Spec == Init /\ [][Next]_vars

-----------------------------------------------------------------------------
(* Vocabulary of the properties, stated on the request, the environment    *)
(* and the upstream reply, not on what the handler computed from them.     *)

NonEmptyString(v) == v.t = "str" /\ v.s # <<>>

\* The JSON value the client supplied, if its body is one.
Supplied == IF req.body.form = "json" THEN req.body.value ELSE Undef

BodyWorkflowDotId == OptProp(OptProp(Supplied, "workflow"), "id")
BodyWorkflowId == OptProp(Supplied, "workflowId")

KeyConfigured == NonEmptyString(env.apiKey)

Answered == pc = "responded"

\* The request in progress came without a usable chatkit_session_id cookie.
LacksSessionCookie == req.cookie \in CookieHeaders(Null)

\* The request in progress carries the session cookie from the browser's jar.
CarriesSessionCookie == jar # Null /\ req.cookie \in CookieHeaders(jar)

ErrorResponse(status, message) ==
  resp.status = status /\ resp.body = [error |-> Str(message)]

-----------------------------------------------------------------------------
(* C1 *)

NoWorkflowIdAvailable ==
  /\ ~NonEmptyString(BodyWorkflowDotId)
  /\ ~NonEmptyString(BodyWorkflowId)
  /\ env.workflowId = <<>>

\* Every upstream call of the request carries a non-empty workflow id, the
\* one the handler resolved.
CallsCarryWorkflowId ==
  \A k \in 1..Len(calls) :
     /\ NonEmptyString(calls[k].workflow.id)
     /\ calls[k].workflow.id = local.resolvedWorkflowId

\* C1 as stated: whenever no workflow id is available from the body or the
\* configuration the answer is 400 {error: "Missing workflow id"} with no
\* upstream call, and an upstream call is only ever made with a non-empty
\* resolved workflow id.
C1_AsStated ==
  /\ (Answered /\ NoWorkflowIdAvailable) =>
       (ErrorResponse(400, MSG_MISSING_WORKFLOW) /\ calls = <<>>)
  /\ CallsCarryWorkflowId

\* C1 amended: the same, for a deployment whose OPENAI_API_KEY is set (the
\* credential check comes first and answers 500).
C1_MissingWorkflowId ==
  /\ (Answered /\ KeyConfigured /\ NoWorkflowIdAvailable) =>
       (ErrorResponse(400, MSG_MISSING_WORKFLOW) /\ calls = <<>>)
  /\ CallsCarryWorkflowId

C1_Witness ==
  /\ Answered /\ KeyConfigured /\ NoWorkflowIdAvailable
  /\ ErrorResponse(400, MSG_MISSING_WORKFLOW)
  /\ req.body.form = "json"

-----------------------------------------------------------------------------
(* C2 *)

\* The first of body.workflow.id, body.workflowId and the configured default
\* that is a non-empty string.
FirstWorkflowIdPresent ==
  IF NonEmptyString(BodyWorkflowDotId) THEN BodyWorkflowDotId
  ELSE IF NonEmptyString(BodyWorkflowId) THEN BodyWorkflowId
  ELSE Str(env.workflowId)

\* C2: the workflow.id of every upstream call is the first one present in
\* the order body.workflow.id, body.workflowId, configured default.
C2_WorkflowPrecedence ==
  \A k \in 1..Len(calls) : calls[k].workflow.id = FirstWorkflowIdPresent

\* A call that took body.workflowId: workflow.id is null, the default is set.
C2_Witness ==
  /\ calls # <<>>
  /\ Prop(Supplied, "workflow") = [t |-> "obj", id |-> Null]
  /\ BodyWorkflowId = Str(<<"wf_alt">>)
  /\ env.workflowId = <<"wf_env">>
  /\ calls[1].workflow.id = Str(<<"wf_alt">>)

-----------------------------------------------------------------------------
(* C3 *)

KeyAbsent == ~KeyConfigured

\* The handler answered from the credential check alone: nothing was read
\* from the request and no caller id was resolved.
AnsweredBeforeReading ==
  /\ log = <<"apiKey">>
  /\ local = NoLocals
  /\ resp.setCookie = Null
  /\ calls = <<>>

\* C3 as stated: without OPENAI_API_KEY the answer is 500
\* {error: "Missing OPENAI_API_KEY environment variable"}, with no upstream
\* call and before the body is read or the caller id resolved.
C3_AsStated ==
  (Answered /\ KeyAbsent) =>
    (ErrorResponse(500, MSG_MISSING_KEY_LONG) /\ AnsweredBeforeReading)

\* C3 amended: the same, with the error text of the deployed version:
\* "Missing OPENAI_API_KEY environment variable" in route.ts and part_002,
\* "Missing OPENAI_API_KEY" in part_000 and part_001.
C3_MissingApiKey ==
  (Answered /\ KeyAbsent) =>
    /\ ErrorResponse(500, IF version \in {"route", "part_002"}
                          THEN MSG_MISSING_KEY_LONG ELSE MSG_MISSING_KEY_SHORT)
    /\ AnsweredBeforeReading

C3_Witness ==
  /\ Answered /\ env.apiKey = Str(<<>>)
  /\ version = "part_000"
  /\ ErrorResponse(500, MSG_MISSING_KEY_SHORT)
  /\ req.cookie = Null

-----------------------------------------------------------------------------
(* C4 *)

HexDigits ==
  {Digits[k] : k \in 1..Len(Digits)} \cup {"a", "b", "c", "d", "e", "f"}

\* 8-4-4-4-12 hexadecimal digits.
IsUUID(str) ==
  /\ Len(str) = 36
  /\ \A k \in 1..36 :
       IF k \in {9, 14, 19, 24} THEN str[k] = "-" ELSE str[k] \in HexDigits

\* "; Path=/; Max-Age=2592000; HttpOnly; SameSite=Lax" and, in production,
\* "; Secure".
DocumentedAttributes ==
  <<";"," ","P","a","t","h","=","/",
    ";"," ","M","a","x","-","A","g","e","=","2","5","9","2","0","0","0",
    ";"," ","H","t","t","p","O","n","l","y",
    ";"," ","S","a","m","e","S","i","t","e","=","L","a","x">>
  \o (IF env.nodeEnv = "production"
      THEN <<";"," ","S","e","c","u","r","e">> ELSE <<>>)

\* The response sets chatkit_session_id to a UUID with the documented
\* attributes.
SetsNewSessionCookie ==
  /\ resp.setCookie.t = "str"
  /\ LET value == StoredValue(resp.setCookie.s)
     IN /\ IsUUID(value)
        /\ resp.setCookie.s = SessionPair(value) \o DocumentedAttributes

\* C4 as stated: every answer to a request lacking the session cookie sets a
\* new chatkit_session_id cookie, a valid UUID, with Path=/, Max-Age=2592000,
\* HttpOnly, SameSite=Lax, and Secure exactly in production.
C4_AsStated == (Answered /\ LacksSessionCookie) => SetsNewSessionCookie

\* C4 amended: the same, for a deployment whose OPENAI_API_KEY is set (the
\* missing-credential answer carries no cookie).
C4_NewSessionCookie ==
  (Answered /\ KeyConfigured /\ LacksSessionCookie) => SetsNewSessionCookie

C4_Witness ==
  /\ Answered /\ KeyConfigured /\ SetsNewSessionCookie
  /\ req.cookie = Str(SessionPair(<<>>))
  /\ env.nodeEnv = "production"
  /\ resp.status = 200

-----------------------------------------------------------------------------
(* C5 *)

\* C5: a request carrying the session cookie gets no Set-Cookie header, and
\* the cookie's value is the `user` of every upstream call made for it.
C5_ExistingSessionCookie ==
  (pc \in {"fetching", "responded"} /\ CarriesSessionCookie) =>
    /\ \A k \in 1..Len(calls) : calls[k].user = jar
    /\ Answered => resp.setCookie = Null

C5_Witness ==
  /\ Answered /\ CarriesSessionCookie
  /\ jar = Str(LegacyId)
  /\ req.cookie = Str(Join(<<OtherCookie, SessionPair(LegacyId)>>, <<";", " ">>))
  /\ calls # <<>>
  /\ calls[1].user = Str(LegacyId)
  /\ resp.setCookie = Null

-----------------------------------------------------------------------------
(* C6 *)

\* C6: once a response has issued a caller id and the browser returns the
\* cookie, the browser holds exactly that id, every upstream call carries it
\* as `user`, and no response sets the cookie again.
C6_StableIdentity ==
  issued # Null =>
    /\ jar = issued
    /\ pc \in {"fetching", "responded"} =>
         /\ \A k \in 1..Len(calls) : calls[k].user = issued
         /\ Answered => resp.setCookie = Null

C6_Witness ==
  /\ issued # Null
  /\ Answered
  /\ Len(calls) = 1
  /\ calls[1].user = issued
  /\ IsUUID(issued.s)
  /\ resp.status = 200

-----------------------------------------------------------------------------
(* C7 *)

\* The handler passed its workflow-id check, so it went on to the upstream
\* step.
ReachedUpstreamStep ==
  local # NoLocals /\ NonEmptyString(local.resolvedWorkflowId)

\* C7: a request that reaches the upstream step causes exactly one upstream
\* POST, or in the retry-fallback version (part_002) one or two; no request
\* causes more than two, and outside part_002 none causes more than one.
C7_UpstreamCallCount ==
  /\ Len(calls) <= 2
  /\ version # "part_002" => Len(calls) <= 1
  /\ (Answered /\ ReachedUpstreamStep) => Len(calls) >= 1
  /\ (Answered /\ ~ReachedUpstreamStep) => Len(calls) = 0

C7_Witness ==
  /\ Answered
  /\ version = "part_002"
  /\ Len(calls) = 2
  /\ reply # NoReply

-----------------------------------------------------------------------------
(* C8 *)

\* The reply to the last upstream POST is a JSON object with this status.
ReplyIsObject ==
  reply # NoReply /\ reply.body.form = "json" /\ reply.body.value.t = "obj"

NullIfMissing(v) == IF v = Undef THEN Null ELSE v

\* C8: an upstream 200 {client_secret: s, expires_after: e} is answered with
\* 200 {client_secret: s, expires_after: e}; a missing field comes back null.
C8_SessionPassThrough ==
  (Answered /\ ReplyIsObject /\ reply.status = 200) =>
    /\ resp.status = 200
    /\ resp.body =
         [client_secret |-> NullIfMissing(reply.body.value.client_secret),
          expires_after |-> NullIfMissing(reply.body.value.expires_after)]

C8_Witness ==
  /\ Answered /\ ReplyIsObject /\ reply.status = 200
  /\ resp.body = [client_secret |-> Str(<<"sk_abc">>), expires_after |-> Num(<<"123">>)]

\* The missing-field case of C8 happens too.
C8_WitnessMissing ==
  /\ Answered /\ ReplyIsObject /\ reply.status = 200
  /\ resp.body = [client_secret |-> Null, expires_after |-> Num(<<"123">>)]

-----------------------------------------------------------------------------
(* C9 *)

Boom == Str(<<"b","o","o","m">>)

\* The last upstream POST was answered non-2xx with {error:{message:"boom"}}.
RepliedBoom ==
  /\ reply # NoReply
  /\ ~(reply.status \in 200..299)
  /\ reply.body.form = "json"
  /\ reply.body.value = UpstreamObject(Undef, ErrorObject(Boom), Undef, Undef)

\* C9 as stated: the answer has the upstream status and its `error` is the
\* string "boom".
C9_AsStated ==
  (Answered /\ RepliedBoom) =>
    (resp.status = reply.status /\ resp.body.error = Boom)

\* C9 amended: the answer has the upstream status; its `error` is the string
\* "boom" in part_000 and part_001, and in route.ts and part_002 it is the
\* parsed upstream body {error:{message:"boom"}} itself.
C9_UpstreamError ==
  (Answered /\ RepliedBoom) =>
    /\ resp.status = reply.status
    /\ version \in {"part_000", "part_001"} => resp.body.error = Boom
    /\ version \in {"route", "part_002"} =>
         /\ resp.body.error = reply.body.value
         /\ resp.body.error.error.message = Boom

C9_Witness ==
  /\ Answered /\ RepliedBoom
  /\ version = "part_000"
  /\ resp.status = 503
  /\ resp.body.error = Boom

\* The object form of C9's answer happens too.
C9_WitnessObject ==
  /\ Answered /\ RepliedBoom
  /\ version = "route"
  /\ resp.status = 400
  /\ resp.body.error.t = "obj"

-----------------------------------------------------------------------------
(* C10 *)

\* The last upstream POST was answered non-2xx.
RepliedFailure == reply # NoReply /\ ~(reply.status \in 200..299)

\* The JSON value of the reply's body, if it is one.
ReplyJson == IF reply.body.form = "json" THEN reply.body.value ELSE Undef

ReplyMessage == Prop(ReplyJson, "message")
ReplyErrorMessage == Prop(Prop(ReplyJson, "error"), "message")

\* The message by the stated order: a non-empty top-level message, else a
\* non-empty error.message, else the raw response text.
StatedMessage ==
  IF NonEmptyString(ReplyMessage) THEN ReplyMessage
  ELSE IF NonEmptyString(ReplyErrorMessage) THEN ReplyErrorMessage
  ELSE Str(reply.body.text)

\* C10 as stated: the `error` of the answer to a failed upstream response is
\* the message chosen in that order.
C10_AsStated ==
  (Answered /\ RepliedFailure) => resp.body.error = StatedMessage

\* C10 amended: part_000 (getUpstreamMessage) chooses in the stated order,
\* with "Upstream error" in place of an empty raw text, for every body but
\* the JSON literal null; part_001 takes a non-empty error.message first,
\* then a non-empty top-level message, then "Upstream error", and never the
\* raw text; route.ts and part_002 answer with the parsed body, not a message.
C10_MessageOrder ==
  (Answered /\ RepliedFailure) =>
    /\ (version = "part_000" /\ ReplyJson # Null) =>
         resp.body.error =
           (IF StatedMessage.s # <<>> THEN StatedMessage ELSE Str(MSG_UPSTREAM_ERROR))
    /\ version = "part_001" =>
         resp.body.error =
           (IF NonEmptyString(ReplyErrorMessage) THEN ReplyErrorMessage
            ELSE IF NonEmptyString(ReplyMessage) THEN ReplyMessage
            ELSE Str(MSG_UPSTREAM_ERROR))
    /\ version \in {"route", "part_002"} =>
         resp.body.error = (IF ReplyJson = Undef THEN EmptyObject ELSE ReplyJson)

\* Both messages present in part_000: the top-level one wins.
C10_Witness ==
  /\ Answered /\ RepliedFailure
  /\ version = "part_000"
  /\ ReplyMessage = Str(<<"t","o","p">>)
  /\ ReplyErrorMessage = Boom
  /\ resp.body.error = Str(<<"t","o","p">>)

\* No message at all in part_000: the raw text is the answer's error.
C10_WitnessRawText ==
  /\ Answered /\ RepliedFailure
  /\ version = "part_000"
  /\ reply.body.form = "malformed"
  /\ resp.body.error = Str(<<"<html>">>)

-----------------------------------------------------------------------------
(* C11 *)

\* The handler raised inside its try block: the upstream fetch rejected, or
\* (part_000) the upstream body was the JSON literal null, whose properties
\* cannot be read.
Threw ==
  /\ Answered
  /\ calls # <<>>
  /\ \/ reply = NoReply
     \/ /\ version = "part_000"
        /\ reply.body.form = "json"
        /\ IsNullish(reply.body.value)

\* C11: whenever the handler raised, the answer is 500 with the body
\* {error: "Unexpected error"} and nothing else, and it sets the new
\* chatkit_session_id cookie exactly when the request came without one (a
\* new caller id was generated before the failure).
C11_UnexpectedException ==
  Threw =>
    /\ resp.status = 500
    /\ resp.body = [error |-> Str(MSG_UNEXPECTED)]
    /\ IF LacksSessionCookie THEN SetsNewSessionCookie ELSE resp.setCookie = Null

\* The fetch of a request without a cookie rejected.
C11_Witness ==
  /\ Threw /\ reply = NoReply
  /\ LacksSessionCookie
  /\ resp.status = 500
  /\ resp.setCookie # Null

\* The TypeError of part_000 on an upstream body `null`.
C11_WitnessTypeError ==
  /\ Threw /\ reply # NoReply
  /\ CarriesSessionCookie
  /\ resp.status = 500

-----------------------------------------------------------------------------
(* C12 *)

\* The request body is empty, or text that is not JSON.
UnreadableBody == req.body.form \in {"empty", "malformed"}

\* The same request with the body {}: no field supplied.
WithoutFields ==
  [cookie |-> req.cookie,
   body |-> [form |-> "json",
             value |-> RequestObject(Undef, Undef, Undef, Undef, Undef)]]

\* The handler does with the request in progress exactly what it does with
\* the same request carrying no field.
AsIfNoFields ==
  \A i \in 1..NumIds :
     HandleRequest(version, env, req, i) = HandleRequest(version, env, WithoutFields, i)

\* What the request reached: the 400 answer without the configured workflow
\* id, and otherwise upstream calls that carry the configured one.
UsesConfiguredWorkflowId ==
  IF env.workflowId = <<>>
  THEN Answered /\ ErrorResponse(400, MSG_MISSING_WORKFLOW) /\ calls = <<>>
  ELSE /\ calls # <<>>
       /\ \A k \in 1..Len(calls) : calls[k].workflow.id = Str(env.workflowId)
       /\ Answered => resp.body # [error |-> Str(MSG_MISSING_WORKFLOW)]

\* C12 as stated: a request whose body is empty or not JSON is handled
\* exactly as one without fields, and it gets the configured workflow id, or
\* 400 when none is configured.
C12_AsStated ==
  (pc \in {"fetching", "responded"} /\ UnreadableBody) =>
    (AsIfNoFields /\ UsesConfiguredWorkflowId)

\* C12 amended: the same, for a deployment whose OPENAI_API_KEY is set (the
\* credential check comes first and answers 500 whatever the body).
C12_UnreadableBody ==
  (pc \in {"fetching", "responded"} /\ UnreadableBody) =>
    /\ AsIfNoFields
    /\ KeyConfigured => UsesConfiguredWorkflowId

C12_Witness ==
  /\ Answered /\ KeyConfigured
  /\ req.body.form = "malformed"
  /\ env.workflowId # <<>>
  /\ calls # <<>>
  /\ resp.status = 200

\* No workflow id is configured: the empty body is answered 400.
C12_WitnessNoDefault ==
  /\ Answered /\ KeyConfigured
  /\ req.body.form = "empty"
  /\ env.workflowId = <<>>
  /\ resp.status = 400

-----------------------------------------------------------------------------
(* C13 *)

\* The last upstream reply carried text that is not JSON.
RepliedMalformed == reply # NoReply /\ reply.body.form = "malformed"

\* C13: a reply whose body is not JSON is answered 200 with
\* {client_secret: null, expires_after: null} when its status is 2xx, and
\* with its own status otherwise; the answer is never the generic 500
\* {error: "Unexpected error"}.
C13_MalformedUpstreamBody ==
  (Answered /\ RepliedMalformed) =>
    /\ IF reply.status \in 200..299
       THEN /\ resp.status = 200
            /\ resp.body = [client_secret |-> Null, expires_after |-> Null]
       ELSE resp.status = reply.status
    /\ resp.body # [error |-> Str(MSG_UNEXPECTED)]

C13_Witness ==
  /\ Answered /\ RepliedMalformed
  /\ reply.status = 200
  /\ resp.status = 200

\* A failure status with a body that is not JSON.
C13_WitnessFailure ==
  /\ Answered /\ RepliedMalformed
  /\ reply.status = 400
  /\ resp.status = 400
  /\ version = "part_000"

-----------------------------------------------------------------------------
(***************************************************************************)
(* The panel component ChatKitPanel.                                       *)
(*                                                                         *)
(* The repository holds three versions of the component:                   *)
(*   "ChatKitPanel" src/components/ChatKitPanel.tsx (postMessage context)  *)
(*   "part_003"     src/unnamed/part_003  (request_episode_context tool)   *)
(*   "part_004"     src/unnamed/part_004  (set_episode_context action)     *)
(* The variable `panelVersion` selects the one that is rendered.           *)
(*                                                                         *)
(* A step is one task of the browser's event loop: an event handler, a     *)
(* timer callback, the continuation of an await, or React running the      *)
(* effects of the render it has committed.  The state updates of one task  *)
(* are committed together.                                                 *)
(***************************************************************************)

(* Bounds of the panel model. *)

\* How many times handleResetChat runs in a run.
MaxResets == 2

\* How many calls the host's callbacks onThemeRequest and onWidgetAction
\* receive in a run.
MaxHostCalls == 3

\* The custom actions the panel sends or has scheduled, at most.
MaxSends == 3

PanelVersions == {"ChatKitPanel", "part_003", "part_004"}

MSG_SET_WORKFLOW_ID ==
  <<"Set NEXT_PUBLIC_CHATKIT_WORKFLOW_ID in your .env.local file.">>
MSG_MISSING_SECRET == <<"Missing client secret in response">>
MSG_UNKNOWN_ERROR == <<"unknown error">>
MSG_ERROR_PREFIX == <<"Error: ">>
MSG_FAILED_TO_FETCH == <<"Failed to fetch">>

\* The detail of the event the 5-second timer hands to handleError.
ScriptUnavailableDetail(v) ==
  CASE v = "ChatKitPanel" ->
         <<"ChatKit web component is unavailable. Verify that the script URL is reachable.">>
    [] v = "part_003" ->
         <<"ChatKit web component unavailable. Check CDN reachability.">>
    [] v = "part_004" ->
         <<"ChatKit web component unavailable. Check the CDN.">>

\* String.prototype.startsWith
StartsWith(str, prefix) ==
  Len(str) >= Len(prefix) /\ SubSeq(str, 1, Len(prefix)) = prefix

PLACEHOLDER_PREFIX == <<"w","f","_","r","e","p","l","a","c","e">>

\* Boolean(WORKFLOW_ID && !WORKFLOW_ID.startsWith("wf_replace"))
isWorkflowConfigured(cfg) ==
  Truthy(Str(cfg.WORKFLOW_ID)) /\ ~StartsWith(cfg.WORKFLOW_ID, PLACEHOLDER_PREFIX)

createInitialErrors ==
  [script |-> Null, session |-> Null, integration |-> Null, retryable |-> FALSE]

\* setErrors((current) => ({ ...current, ...updates }))
setErrorState(current, updates) ==
  [k \in DOMAIN current |-> IF k \in DOMAIN updates THEN updates[k] ELSE current[k]]

\* window.customElements?.get("openai-chatkit") ? "ready" : "pending"
DetectedScriptStatus(b) == IF b.registered THEN "ready" ELSE "pending"

\* Faulty variant: the script error is kept.
handleLoaded_KeepsError(p) ==
  IF ~p.isMountedRef THEN p ELSE [p EXCEPT !.scriptStatus = "ready"]

\* handleLoaded of the script effect.
handleLoaded(p) ==
  IF ~p.isMountedRef THEN p
  ELSE [p EXCEPT !.scriptStatus = "ready",
                 !.errors = setErrorState(@, [script |-> Null])]

\* Faulty variant: a script error is marked retryable.
handleError_Retryable(p, eventDetail) ==
  IF ~p.isMountedRef THEN p
  ELSE LET detail == Coalesce(eventDetail, Str(MSG_UNKNOWN_ERROR))
       IN [p EXCEPT !.scriptStatus = "error",
                    !.errors = setErrorState(@, [script |-> Str(MSG_ERROR_PREFIX \o detail.s),
                                                 retryable |-> TRUE]),
                    !.isInitializingSession = FALSE]

\* handleError of the script effect, for the detail of its event.
handleError(p, eventDetail) ==
  IF ~p.isMountedRef THEN p
  ELSE LET detail == Coalesce(eventDetail, Str(MSG_UNKNOWN_ERROR))
       IN [p EXCEPT !.scriptStatus = "error",
                    !.errors = setErrorState(@, [script |-> Str(MSG_ERROR_PREFIX \o detail.s),
                                                 retryable |-> FALSE]),
                    !.isInitializingSession = FALSE]

\* The body of the script effect after it has added its listeners: the panel
\* state it leaves and whether its timer is set.
ScriptEffectBody(p, b) ==
  IF b.registered
  THEN [panel |-> handleLoaded(p), timeoutId |-> "none"]
  ELSE IF p.scriptStatus = "pending"
  THEN [panel |-> p, timeoutId |-> "set"]
  ELSE [panel |-> p, timeoutId |-> "none"]

\* The effect on isWorkflowConfigured.
WorkflowEffect(p, cfg) ==
  IF ~isWorkflowConfigured(cfg) /\ p.isMountedRef
  THEN [p EXCEPT !.errors = setErrorState(@, [session |-> Str(MSG_SET_WORKFLOW_ID),
                                              retryable |-> FALSE]),
                 !.isInitializingSession = FALSE]
  ELSE p

\* Faulty variant: the processed facts are kept.
handleResetChat_KeepsFacts(p, b) ==
  [p EXCEPT !.injectedRef = FALSE,
            !.latestThreadIdRef = Null,
            !.scriptStatus = DetectedScriptStatus(b),
            !.isInitializingSession = TRUE,
            !.errors = createInitialErrors,
            !.widgetInstanceKey = @ + 1]

\* handleResetChat; injectedRef and latestThreadIdRef are refs of part_004
\* (part_004:133-134), which nothing sets in the other versions.
handleResetChat(p, b) ==
  [p EXCEPT !.processedFacts = {},
            !.injectedRef = FALSE,
            !.latestThreadIdRef = Null,
            !.scriptStatus = DetectedScriptStatus(b),
            !.isInitializingSession = TRUE,
            !.errors = createInitialErrors,
            !.widgetInstanceKey = @ + 1]

\* extractErrorDetail of ChatKitPanel.tsx
extractErrorDetail(payload, fallback) ==
  IF ~Truthy(payload) THEN fallback
  ELSE
    LET err == Prop(payload, "error")
        details == Prop(payload, "details")
        nested == Prop(details, "error")
    IN IF IsString(err) THEN err
       ELSE IF Truthy(err) /\ err.t = "obj" /\ IsString(Prop(err, "message"))
       THEN Prop(err, "message")
       ELSE IF IsString(details) THEN details
       ELSE IF Truthy(details) /\ details.t = "obj" /\ IsString(nested)
       THEN nested
       ELSE IF Truthy(details) /\ details.t = "obj" /\ Truthy(nested)
               /\ nested.t = "obj" /\ IsString(Prop(nested, "message"))
       THEN Prop(nested, "message")
       ELSE IF IsString(Prop(payload, "message")) THEN Prop(payload, "message")
       ELSE fallback

\* The detail of a response that is not ok.
FailureDetail(v, data, statusText) ==
  IF v = "ChatKitPanel"
  THEN extractErrorDetail(data, Str(statusText))
  ELSE Or(OptProp(OptProp(data, "error"), "message"), Str(statusText))

NoCall == [t |-> "none"]

\* Faulty variant: every call shows the session as initializing again.
GetClientSecretStart_AlwaysInitializing(v, cfg, p, currentSecret) ==
  IF ~isWorkflowConfigured(cfg)
  THEN [panel |->
          IF p.isMountedRef
          THEN [p EXCEPT !.errors = setErrorState(@, [session |-> Str(MSG_SET_WORKFLOW_ID),
                                                      retryable |-> FALSE]),
                         !.isInitializingSession = FALSE]
          ELSE p,
        threw |-> TRUE]
  ELSE [panel |->
          IF p.isMountedRef
          THEN [p EXCEPT !.isInitializingSession = TRUE,
                         !.errors = setErrorState(@, [session |-> Null,
                                                      integration |-> Null,
                                                      retryable |-> FALSE])]
          ELSE p,
        threw |-> FALSE]

\* getClientSecret(currentSecret) up to its await of fetch: the panel state
\* it leaves and whether it threw instead of fetching.
GetClientSecretStart(v, cfg, p, currentSecret) ==
  IF ~isWorkflowConfigured(cfg)
  THEN [panel |->
          IF p.isMountedRef
          THEN [p EXCEPT !.errors = setErrorState(@, [session |-> Str(MSG_SET_WORKFLOW_ID),
                                                      retryable |-> FALSE]),
                         !.isInitializingSession = FALSE]
          ELSE p,
        threw |-> TRUE]
  ELSE [panel |->
          IF p.isMountedRef
          THEN [p EXCEPT !.isInitializingSession =
                           IF ~Truthy(currentSecret) THEN TRUE ELSE @,
                         !.errors = setErrorState(@, [session |-> Null,
                                                      integration |-> Null,
                                                      retryable |-> FALSE])]
          ELSE p,
        threw |-> FALSE]

Resolved(p, secret) == [panel |-> p, secret |-> secret, error |-> Null]
Rejected(p, message) == [panel |-> p, secret |-> Null, error |-> message]

\* Faulty variant: the catch block rethrows without recording the error.
CatchFinally_Silent(p, currentSecret, detail) == Rejected(p, detail)

\* The catch and finally blocks of getClientSecret in ChatKitPanel.tsx.
CatchFinally(p, currentSecret, detail) ==
  IF ~p.isMountedRef THEN Rejected(p, detail)
  ELSE Rejected(
         [p EXCEPT !.errors = setErrorState(@, [session |-> detail, retryable |-> FALSE]),
                   !.isInitializingSession = IF ~Truthy(currentSecret) THEN FALSE ELSE @],
         detail)

\* getClientSecret from the answer to its fetch to its end: the panel state
\* it leaves, and the secret it resolves to or the message it rejects with.
GetClientSecretEnd(v, p, currentSecret, answer) ==
  IF answer.t = "rejected"
  THEN IF v = "ChatKitPanel"
       THEN CatchFinally(p, currentSecret, Str(answer.message))
       ELSE Rejected(p, Str(answer.message))
  ELSE
    LET data == parseJsonSafe(answer.body)
        clientSecret == OptProp(data, "client_secret")
        success ==
          IF ~p.isMountedRef THEN p
          ELSE [p EXCEPT !.errors = setErrorState(@, [session |-> Null,
                                                      integration |-> Null]),
                         !.isInitializingSession =
                           IF ~Truthy(currentSecret) THEN FALSE ELSE @]
    IN IF ~Ok(answer.status)
       THEN LET detail == FailureDetail(v, data, answer.statusText)
            IN IF v = "ChatKitPanel"
               THEN CatchFinally(p, currentSecret, detail)
               ELSE Rejected(
                      IF p.isMountedRef
                      THEN [p EXCEPT !.errors = setErrorState(@, [session |-> detail,
                                                                  retryable |-> FALSE])]
                      ELSE p,
                      detail)
       ELSE IF ~Truthy(clientSecret)
       THEN IF v = "ChatKitPanel"
            THEN CatchFinally(p, currentSecret, Str(MSG_MISSING_SECRET))
            ELSE Rejected(p, Str(MSG_MISSING_SECRET))
       ELSE Resolved(success, clientSecret)

\* setErrorState({ integration: null, retryable: false }) of onResponseStart,
\* which does not look at isMountedRef: updatedAfterUnmount records that a
\* state setter was called for the unmounted component.
ClearIntegrationError(p) ==
  [p EXCEPT !.errors = setErrorState(@, [integration |-> Null, retryable |-> FALSE]),
            !.updatedAfterUnmount = @ \/ ~p.isMountedRef]

\* The custom action part_004 sends to the widget.
SetEpisodeContextAction(p) ==
  [type |-> "set_episode_context",
   payload |-> [episodeCode |-> p.episodeCtx.code, title |-> p.episodeCtx.title,
                mp3 |-> p.episodeCtx.mp3]]

\* !injectedRef.current && episodeCtx?.code
MustInject(p) == ~p.injectedRef /\ Truthy(OptProp(p.episodeCtx, "code"))

\* onResponseStart up to its await, or to its end when it does not await:
\* the panel state it leaves and whether it awaits sendCustomAction. Only
\* part_004 sends.
onResponseStart(v, p) ==
  IF v = "part_004" /\ MustInject(p)
  THEN [panel |-> [p EXCEPT !.injectedRef = TRUE], awaits |-> TRUE]
  ELSE [panel |-> ClearIntegrationError(p), awaits |-> FALSE]

\* The catch of the send that onThreadChange scheduled.
OnDeferredSendFailed(p) == [p EXCEPT !.injectedRef = FALSE]

\* String(v) of a string or a number.
String(v) == v.s

\* The characters the class \s of a regular expression matches.
RegexWhiteSpace == {" ", "\t", "\n"}

\* str.replace(/\s+/g, " ")
RECURSIVE CollapseWhiteSpace(_)
CollapseWhiteSpace(str) ==
  IF str = <<>> THEN <<>>
  ELSE IF Head(str) \in RegexWhiteSpace
  THEN IF Len(str) > 1 /\ str[2] \in RegexWhiteSpace
       THEN CollapseWhiteSpace(Tail(str))
       ELSE <<" ">> \o CollapseWhiteSpace(Tail(str))
  ELSE <<Head(str)>> \o CollapseWhiteSpace(Tail(str))

\* The object a client tool returns: { success } and, in part_003, { ok }.
ToolResult(v, flag) ==
  IF v = "part_003" THEN [t |-> "obj", ok |-> flag]
  ELSE [t |-> "obj", success |-> flag]

NoResult == [t |-> "none"]
NoHostCall == [t |-> "none"]

\* A query string is the sequence of its name=value pairs.
\* URLSearchParams.get(name): the value of the first pair of that name, or
\* null.
SearchParamsGet(query, name) ==
  LET first == {i \in 1..Len(query) :
                  query[i].name = name /\ \A j \in 1..(i - 1) : query[j].name # name}
  IN IF first = {} THEN Null ELSE Str(query[CHOOSE i \in first : TRUE].value)

\* document.referrer: empty, a string that new URL rejects, or a URL with
\* its query string.
NoReferrer == [t |-> "empty"]
InvalidReferrer == [t |-> "invalid"]
ReferrerUrl(query) == [t |-> "url", query |-> query]

\* document.referrer ? new URL(document.referrer) : null, inside the try
\* block: the query string of the parent page, when there is one to read.
ParentSearchParams(b) == IF b.referrer.t = "url" THEN b.referrer.query ELSE <<>>

\* episodeCtx of part_003 and part_004 (useMemo at the first render).
\* part_003 reads the three fields of the parent page before it looks at the
\* code, and its record names the code episodeCode; part_004 takes the
\* fields of the page whose code it takes.
ResolveEpisodeCtx(v, b) ==
  LET own == b.search
      parent == ParentSearchParams(b)
  IN IF v = "part_003"
     THEN LET code1 == SearchParamsGet(parent, "episodeCode")
              title1 == SearchParamsGet(parent, "title")
              mp31 == SearchParamsGet(parent, "mp3")
              useOwn == ~Truthy(code1)
              code == IF useOwn THEN SearchParamsGet(own, "episodeCode") ELSE code1
              title == IF useOwn THEN Coalesce(title1, SearchParamsGet(own, "title"))
                       ELSE title1
              mp3 == IF useOwn THEN Coalesce(mp31, SearchParamsGet(own, "mp3"))
                     ELSE mp31
          IN IF ~Truthy(code) THEN Null
             ELSE [t |-> "obj", episodeCode |-> code, title |-> title, mp3 |-> mp3]
     ELSE LET fromParent == Truthy(SearchParamsGet(parent, "episodeCode"))
              fromOwn == ~fromParent /\ Truthy(SearchParamsGet(own, "episodeCode"))
              q == IF fromParent THEN parent ELSE own
          IN IF ~fromParent /\ ~fromOwn THEN Null
             ELSE [t |-> "obj", code |-> SearchParamsGet(q, "episodeCode"),
                   title |-> Or(SearchParamsGet(q, "title"), Undef),
                   mp3 |-> Or(SearchParamsGet(q, "mp3"), Undef)]

\* The effect of ChatKitPanel.tsx that reads the iframe's own query string.
QueryParamEffect(p, b) ==
  LET code == SearchParamsGet(b.search, "episodeCode")
  IN IF Truthy(code)
     THEN [p EXCEPT !.episodeCtx =
             [t |-> "obj", code |-> code,
              title |-> Or(SearchParamsGet(b.search, "title"), Undef),
              mp3 |-> Or(SearchParamsGet(b.search, "mp3"), Undef)]]
     ELSE p

ALLOWED_PARENTS == {<<"https://leonardo-english.webflow.io">>}

\* (data.title || "").trim() || undefined
TrimmedOrUndefined(v) == Or(Str(Trim(Or(v, Str(<<>>)).s)), Undef)

\* Faulty variant: a message of any origin is taken.
onMessage_AnyOrigin(p, e) ==
  IF ~Truthy(e.data) \/ Prop(e.data, "type") # Str(<<"le-episode-context">>) THEN p
  ELSE LET code == Trim(String(Or(Prop(e.data, "code"), Str(<<>>))))
       IN IF code = <<>> THEN p
          ELSE [p EXCEPT !.episodeCtx =
                  [t |-> "obj", code |-> Str(code),
                   title |-> TrimmedOrUndefined(Prop(e.data, "title")),
                   mp3 |-> TrimmedOrUndefined(Prop(e.data, "mp3"))]]

\* Faulty variant: an accepted message keeps the title and mp3 the context
\* had when it names none.
onMessage_MergesContext(p, e) ==
  IF ~Truthy(e.data) \/ Prop(e.data, "type") # Str(<<"le-episode-context">>) THEN p
  ELSE IF e.origin \notin ALLOWED_PARENTS THEN p
  ELSE LET code == Trim(String(Or(Prop(e.data, "code"), Str(<<>>))))
       IN IF code = <<>> THEN p
          ELSE [p EXCEPT !.episodeCtx =
                  [t |-> "obj", code |-> Str(code),
                   title |-> Or(TrimmedOrUndefined(Prop(e.data, "title")),
                                OptProp(p.episodeCtx, "title")),
                   mp3 |-> Or(TrimmedOrUndefined(Prop(e.data, "mp3")),
                              OptProp(p.episodeCtx, "mp3"))]]

\* onMessage of ChatKitPanel.tsx, the listener of window message events.
onMessage(p, e) ==
  IF ~Truthy(e.data) \/ Prop(e.data, "type") # Str(<<"le-episode-context">>) THEN p
  ELSE IF e.origin \notin ALLOWED_PARENTS THEN p
  ELSE LET code == Trim(String(Or(Prop(e.data, "code"), Str(<<>>))))
       IN IF code = <<>> THEN p
          ELSE [p EXCEPT !.episodeCtx =
                  [t |-> "obj", code |-> Str(code),
                   title |-> TrimmedOrUndefined(Prop(e.data, "title")),
                   mp3 |-> TrimmedOrUndefined(Prop(e.data, "mp3"))]]

\* A variant of SessionPayload that sends the workflow id alone.
SessionPayload_WorkflowOnly(v, cfg, p) ==
  RequestObject([t |-> "obj", id |-> Str(cfg.WORKFLOW_ID)], Undef,
                Undef, Undef, Undef)

\* The body getClientSecret posts: ChatKitPanel.tsx adds the episode context
\* it has; part_003 and part_004 post the workflow alone.
SessionPayload(v, cfg, p) ==
  LET ctx == p.episodeCtx
      has == v = "ChatKitPanel" /\ Truthy(OptProp(ctx, "code"))
  IN RequestObject([t |-> "obj", id |-> Str(cfg.WORKFLOW_ID)], Undef,
                   IF has THEN ctx.code ELSE Undef,
                   IF has /\ Truthy(ctx.title) THEN ctx.title ELSE Undef,
                   IF has /\ Truthy(ctx.mp3) THEN ctx.mp3 ELSE Undef)

\* The request_episode_context branch of onClientTool in part_003: what it
\* returns.
RequestEpisodeContext(p, b) ==
  LET code1 == Coalesce(OptProp(p.episodeCtx, "episodeCode"), Null)
      title1 == Coalesce(OptProp(p.episodeCtx, "title"), Null)
      mp31 == Coalesce(OptProp(p.episodeCtx, "mp3"), Null)
      useOwn == ~Truthy(code1)
  IN [t |-> "obj",
      episodeCode |-> IF useOwn THEN SearchParamsGet(b.search, "episodeCode") ELSE code1,
      title |-> IF useOwn THEN Coalesce(title1, SearchParamsGet(b.search, "title"))
                ELSE title1,
      mp3 |-> IF useOwn THEN Coalesce(mp31, SearchParamsGet(b.search, "mp3"))
              ELSE mp31]

\* The outcome of a client tool: the refs it leaves, what it returns and
\* the calls it makes to onThemeRequest and onWidgetAction.
ToolOutcome(p, result, themeRequest, widgetAction) ==
  [panel |-> p, result |-> result, themeRequest |-> themeRequest,
   widgetAction |-> widgetAction]

\* The colour schemes switch_theme accepts.
THEME_LIGHT == <<"l","i","g","h","t">>
THEME_DARK == <<"d","a","r","k">>

\* Faulty variant: the requested theme is compared without regard to case.
SwitchTheme_AnyCase(v, p, params) ==
  LET requested == Prop(params, "theme")
  IN IF /\ IsString(requested)
        /\ ToLowerCase(requested.s) \in {THEME_LIGHT, THEME_DARK}
     THEN ToolOutcome(p, ToolResult(v, TRUE), requested, NoHostCall)
     ELSE ToolOutcome(p, ToolResult(v, FALSE), NoHostCall, NoHostCall)

\* The switch_theme branch of onClientTool.
SwitchTheme(v, p, params) ==
  LET requested == Prop(params, "theme")
  IN IF requested = Str(THEME_LIGHT) \/ requested = Str(THEME_DARK)
     THEN ToolOutcome(p, ToolResult(v, TRUE), requested, NoHostCall)
     ELSE ToolOutcome(p, ToolResult(v, FALSE), NoHostCall, NoHostCall)

\* Faulty variant: a fact is forwarded whether or not it was processed.
RecordFact_NoDedup(v, p, params) ==
  LET id == String(Coalesce(Prop(params, "fact_id"), Str(<<>>)))
      text == String(Coalesce(Prop(params, "fact_text"), Str(<<>>)))
  IN IF id = <<>>
     THEN ToolOutcome(p, ToolResult(v, TRUE), NoHostCall, NoHostCall)
     ELSE ToolOutcome([p EXCEPT !.processedFacts = @ \cup {id}],
                      ToolResult(v, TRUE), NoHostCall,
                      [type |-> "save", factId |-> id,
                       factText |-> Trim(CollapseWhiteSpace(text))])

\* The record_fact branch of onClientTool.
RecordFact(v, p, params) ==
  LET id == String(Coalesce(Prop(params, "fact_id"), Str(<<>>)))
      text == String(Coalesce(Prop(params, "fact_text"), Str(<<>>)))
  IN IF id = <<>> \/ id \in p.processedFacts
     THEN ToolOutcome(p, ToolResult(v, TRUE), NoHostCall, NoHostCall)
     ELSE ToolOutcome([p EXCEPT !.processedFacts = @ \cup {id}],
                      ToolResult(v, TRUE), NoHostCall,
                      [type |-> "save", factId |-> id,
                       factText |-> Trim(CollapseWhiteSpace(text))])

\* onClientTool({ name, params })
onClientTool(v, p, b, name, params) ==
  IF name = "switch_theme" THEN SwitchTheme(v, p, params)
  ELSE IF name = "record_fact" THEN RecordFact(v, p, params)
  ELSE IF name = "request_episode_context" /\ v = "part_003"
  THEN ToolOutcome(p, RequestEpisodeContext(p, b), NoHostCall, NoHostCall)
  ELSE ToolOutcome(p, ToolResult(v, FALSE), NoHostCall, NoHostCall)

\* What the host's onWidgetAction promise comes to.
HostAnswers == {"resolved", "rejected"}

\* The call of onClientTool ended in a rejection instead of a result.
ToolRejected == [t |-> "rejected"]

\* What the widget gets back from onClientTool: part_003 awaits
\* onWidgetAction, so a rejection of the host's promise rejects the tool
\* call; the other versions discard the promise (void) and return.
ToolReturn(v, o, answer) ==
  IF v = "part_003" /\ o.widgetAction # NoHostCall /\ answer = "rejected"
  THEN ToolRejected
  ELSE o.result

\* onThreadChange({ threadId }): the panel state it leaves and whether it
\* has scheduled the send of set_episode_context (setTimeout 0). part_004
\* keeps the processed facts.
onThreadChange(v, p, threadId) ==
  IF v = "part_004"
  THEN LET inject == Truthy(threadId) /\ MustInject(p)
       IN [panel |-> [p EXCEPT !.latestThreadIdRef = threadId,
                               !.injectedRef = @ \/ inject],
           scheduled |-> inject]
  ELSE [panel |-> [p EXCEPT !.processedFacts = {}], scheduled |-> FALSE]

\* Faulty variant: the session and integration errors come first.
blockingError_ScriptLast(p) ==
  Coalesce(Coalesce(p.errors.session, p.errors.integration), p.errors.script)

\* The render: what the component returns for its state.
activeError(p) == Coalesce(p.errors.session, p.errors.integration)
blockingError(p) == Coalesce(p.errors.script, activeError(p))

WidgetClassName(p) ==
  IF Truthy(blockingError(p)) \/ p.isInitializingSession
  THEN "pointer-events-none opacity-0"
  ELSE "block h-full w-full"

\* The props of ErrorOverlay.
OverlayError(p) == blockingError(p)

OverlayFallbackMessage(p) ==
  IF Truthy(blockingError(p)) \/ ~p.isInitializingSession
  THEN Null
  ELSE Str(<<"Loading assistant session...">>)

\* onRetry is handleResetChat, and not null.
OverlayOffersRetry(p) == Truthy(blockingError(p)) /\ p.errors.retryable

-----------------------------------------------------------------------------
(* The environment of the panel. *)

\* lib/config: NEXT_PUBLIC_CHATKIT_WORKFLOW_ID unset, the placeholder of
\* the template, and a workflow id.
PanelConfigs ==
  [WORKFLOW_ID : {<<>>,
                  <<"w","f","_","r","e","p","l","a","c","e","_","m","e">>,
                  <<"w","f","_","1">>}]

\* The detail of a chatkit-script-error event.
ScriptErrorDetails == {Undef, Str(<<"net::ERR_FAILED">>)}

\* The answers to the panel's POST /api/create-session, as the broker gives
\* them; statusText is empty over HTTP/2.
SessionAnswer(status, statusText, body) ==
  [t |-> "response", status |-> status, statusText |-> statusText, body |-> body]

CreateSessionAnswers ==
  {SessionAnswer(200, <<"OK">>,
     JsonBody(<<"{\"client_secret\":\"cs_1\",\"expires_after\":123}">>,
              [t |-> "obj", client_secret |-> Str(<<"cs_1">>),
               expires_after |-> Num(<<"123">>)])),
   SessionAnswer(200, <<"OK">>,
     JsonBody(<<"{\"client_secret\":null,\"expires_after\":null}">>,
              [t |-> "obj", client_secret |-> Null, expires_after |-> Null])),
   SessionAnswer(400, <<"Bad Request">>,
     JsonBody(<<"{\"error\":\"Missing workflow id\"}">>,
              [t |-> "obj", error |-> Str(MSG_MISSING_WORKFLOW)])),
   SessionAnswer(401, <<"Unauthorized">>,
     JsonBody(<<"{\"error\":{\"error\":{\"message\":\"boom\"}}}">>,
              [t |-> "obj", error |-> [t |-> "obj", error |-> ErrorObject(Boom)]])),
   SessionAnswer(401, <<>>,
     JsonBody(<<"{\"error\":{\"error\":{\"message\":\"boom\"}}}">>,
              [t |-> "obj", error |-> [t |-> "obj", error |-> ErrorObject(Boom)]])),
   SessionAnswer(502, <<"Bad Gateway">>,
     [form |-> "malformed", text |-> <<"<html>">>, value |-> Undef])}

\* What the widget invokes the client tools with.
ThemeParams ==
  {[t |-> "obj", theme |-> th] :
     th \in {Str(THEME_LIGHT), Str(THEME_DARK), Str(<<"D","a","r","k">>), Undef}}

MessyText == <<" ", "a", " ", "\t", "\n", "b", " ">>

FactParams ==
  {[t |-> "obj", fact_id |-> Str(<<"f", "1">>), fact_text |-> Str(MessyText)],
   [t |-> "obj", fact_id |-> Num(<<"7">>), fact_text |-> Undef],
   [t |-> "obj", fact_id |-> Str(<<>>), fact_text |-> Str(MessyText)],
   [t |-> "obj", fact_id |-> Undef, fact_text |-> Str(MessyText)]}

ToolInvocations ==
  {[name |-> "switch_theme", params |-> ps] : ps \in ThemeParams}
  \cup {[name |-> "record_fact", params |-> ps] : ps \in FactParams}
  \cup {[name |-> "get_weather", params |-> EmptyObject]}

FetchRejections == {[t |-> "rejected", message |-> MSG_FAILED_TO_FETCH]}

\* The thread ids of onThreadChange: no thread (a new chat) and a thread.
ThreadIds == {Null, Str(<<"thread_1">>)}

QueryPair(name, value) == [name |-> name, value |-> value]

\* The page is opened on its own: no referrer, no query string.
NoLocation == [referrer |-> NoReferrer, search |-> <<>>]

\* Where the iframe is opened from and with what query string: on its own;
\* both pages name an episode; the parent page names a title and no code;
\* the parent page names an empty code; the referrer is not a URL; the
\* iframe alone names an episode, without a title; neither names a code.
Locations ==
  {NoLocation,
   [referrer |-> ReferrerUrl(<<QueryPair("episodeCode", <<"E1">>),
                               QueryPair("title", <<"T1">>),
                               QueryPair("mp3", <<"M1">>)>>),
    search |-> <<QueryPair("episodeCode", <<"E2">>), QueryPair("title", <<"T2">>)>>],
   [referrer |-> ReferrerUrl(<<QueryPair("title", <<"T1">>)>>),
    search |-> <<QueryPair("episodeCode", <<"E2">>), QueryPair("title", <<"T2">>)>>],
   [referrer |-> ReferrerUrl(<<QueryPair("episodeCode", <<>>),
                               QueryPair("mp3", <<"M1">>)>>),
    search |-> <<QueryPair("episodeCode", <<"E2">>), QueryPair("title", <<>>)>>],
   [referrer |-> InvalidReferrer,
    search |-> <<QueryPair("episodeCode", <<"E2">>), QueryPair("mp3", <<"M2">>)>>],
   [referrer |-> ReferrerUrl(<<>>),
    search |-> <<QueryPair("title", <<"T2">>)>>]}

\* The message events of the window: the episode of the parent page from an
\* allowed origin, with blanks around its fields; the same from another
\* origin; a message of another type; one without a code; one with a code
\* and no title; one without data.
EpisodeMessage(type, code, title) ==
  [t |-> "obj", type |-> Str(<<type>>), code |-> code, title |-> title, mp3 |-> Undef]

MessageEvents ==
  {[origin |-> <<"https://leonardo-english.webflow.io">>,
    data |-> EpisodeMessage("le-episode-context", Str(<<" ", "E3", " ">>),
                            Str(<<"T3", " ">>))],
   [origin |-> <<"https://evil.example">>,
    data |-> EpisodeMessage("le-episode-context", Str(<<"E4">>), Str(<<"T4">>))],
   [origin |-> <<"https://leonardo-english.webflow.io">>,
    data |-> EpisodeMessage("other", Str(<<"E4">>), Str(<<"T4">>))],
   [origin |-> <<"https://leonardo-english.webflow.io">>,
    data |-> EpisodeMessage("le-episode-context", Str(<<" ">>), Str(<<"T4">>))],
   [origin |-> <<"https://leonardo-english.webflow.io">>,
    data |-> EpisodeMessage("le-episode-context", Str(<<"E5">>), Undef)],
   [origin |-> <<"https://leonardo-english.webflow.io">>, data |-> Null]}

-----------------------------------------------------------------------------
(* The state machine of the panel. *)

\* No broker is observed: its variables stay as they are constructed.
BrokerAbsent ==
  /\ version = "route"
  /\ env = [apiKey |-> Str(<<"sk-key">>), nodeEnv |-> "production",
            workflowId |-> <<>>]
  /\ jar = Null
  /\ issued = Null
  /\ pc = "idle"
  /\ req = NoRequest
  /\ local = NoLocals
  /\ calls = <<>>
  /\ log = <<>>
  /\ reply = NoReply
  /\ resp = NoResponse

\* The component after its first render, for a version, a configuration, a
\* state of the vendor script and a location drawn from the sets given.
PanelMounted(versions, configs, registrations, locations) ==
  /\ panelVersion \in versions
  /\ panelConfig \in configs
  /\ \E registered \in registrations, location \in locations :
       /\ browser = [registered |-> registered, timeoutId |-> "none",
                     effectFor |-> "none", referrer |-> location.referrer,
                     search |-> location.search]
       /\ panel = [processedFacts |-> {},
                   errors |-> createInitialErrors,
                   isInitializingSession |-> TRUE,
                   isMountedRef |-> TRUE,
                   scriptStatus |-> DetectedScriptStatus([registered |-> registered]),
                   widgetInstanceKey |-> 0,
                   episodeCtx |-> IF panelVersion = "ChatKitPanel" THEN Null
                                  ELSE ResolveEpisodeCtx(panelVersion, location),
                   injectedRef |-> FALSE,
                   latestThreadIdRef |-> Null,
                   updatedAfterUnmount |-> FALSE]
  /\ widget = [call |-> NoCall, secret |-> Null, timers |-> 0, sends |-> <<>>,
               threadSeen |-> FALSE, sentBare |-> FALSE]
  /\ host = [themeRequests |-> <<>>, widgetActions |-> <<>>, result |-> NoResult,
             threadStart |-> 0, mountStart |-> 0]

\* The panel alone: no broker is observed.
PanelStart(versions, configs, registrations, locations) ==
  /\ BrokerAbsent
  /\ PanelMounted(versions, configs, registrations, locations)

\* The panel on a page that passes it no episode.
PanelInit == PanelStart(PanelVersions, PanelConfigs, BOOLEAN, {NoLocation})

\* The script effect has not run for the script status of the last render.
EffectsDue == panel.isMountedRef /\ browser.effectFor # panel.scriptStatus

\* The listeners of the script effect are on the window.
Listening == panel.isMountedRef /\ browser.effectFor # "none"

\* The browser is free to run a task of the mounted panel.
Settled == panel.isMountedRef /\ ~EffectsDue

\* React runs the effects of the first render: the script effect, the
\* workflow effect and, in ChatKitPanel.tsx, the effect that reads the query
\* string and the one that adds the message listener.
MountEffects ==
  /\ panel.isMountedRef
  /\ browser.effectFor = "none"
  /\ LET e == ScriptEffectBody(panel, browser)
         w == WorkflowEffect(e.panel, panelConfig)
     IN /\ panel' = IF panelVersion = "ChatKitPanel"
                    THEN QueryParamEffect(w, browser) ELSE w
        /\ browser' = [browser EXCEPT !.effectFor = panel.scriptStatus,
                                       !.timeoutId = e.timeoutId]
  /\ UNCHANGED <<panelVersion, panelConfig, widget, host>>
  /\ UNCHANGED brokerVars

\* scriptStatus has changed: React cleans the script effect up (listeners
\* removed, timer cleared) and runs it again.
ScriptEffect ==
  /\ EffectsDue
  /\ browser.effectFor # "none"
  /\ LET e == ScriptEffectBody(panel, browser)
     IN /\ panel' = e.panel
        /\ browser' = [browser EXCEPT !.effectFor = panel.scriptStatus,
                                       !.timeoutId = e.timeoutId]
  /\ UNCHANGED <<panelVersion, panelConfig, widget, host>>
  /\ UNCHANGED brokerVars

\* The vendor script runs and defines the custom element.
RegisterElement ==
  /\ Settled
  /\ ~browser.registered
  /\ browser' = [browser EXCEPT !.registered = TRUE]
  /\ UNCHANGED <<panelVersion, panelConfig, panel, widget, host>>
  /\ UNCHANGED brokerVars

\* The page dispatches chatkit-script-loaded.
ScriptLoadedEvent ==
  /\ Settled
  /\ Listening
  /\ browser.registered
  /\ panel' = handleLoaded(panel)
  /\ UNCHANGED <<panelVersion, panelConfig, browser, widget, host>>
  /\ UNCHANGED brokerVars

\* The page dispatches chatkit-script-error.
ScriptErrorEvent ==
  /\ Settled
  /\ Listening
  /\ ~browser.registered
  /\ \E detail \in ScriptErrorDetails : panel' = handleError(panel, detail)
  /\ UNCHANGED <<panelVersion, panelConfig, browser, widget, host>>
  /\ UNCHANGED brokerVars

\* The 5-second timer of the script effect fires.
TimerFires ==
  /\ Settled
  /\ browser.timeoutId = "set"
  /\ browser' = [browser EXCEPT !.timeoutId = "none"]
  /\ panel' = IF ~browser.registered
              THEN handleError(panel, Str(ScriptUnavailableDetail(panelVersion)))
              ELSE panel
  /\ UNCHANGED <<panelVersion, panelConfig, widget, host>>
  /\ UNCHANGED brokerVars

\* The body of a session request names an episode code.
CarriesEpisode(payload) == Truthy(Prop(payload, "episodeCode"))

\* The widget asks for a client secret: getClientSecret runs to its fetch.
\* sentBare records that a request was sent without an episode code.
GetClientSecret ==
  /\ Settled
  /\ browser.registered
  /\ widget.call = NoCall
  /\ LET g == GetClientSecretStart(panelVersion, panelConfig, panel, widget.secret)
     IN /\ panel' = g.panel
        /\ widget' = IF g.threw THEN widget
                     ELSE [widget EXCEPT
                             !.call =
                               [currentSecret |-> widget.secret,
                                key |-> panel.widgetInstanceKey,
                                payload |-> SessionPayload(panelVersion, panelConfig,
                                                           panel)],
                             !.sentBare = @ \/ ~CarriesEpisode(
                               SessionPayload(panelVersion, panelConfig, panel))]
  /\ UNCHANGED <<panelVersion, panelConfig, browser, host>>
  /\ UNCHANGED brokerVars

\* The end of a getClientSecret call: the widget that made the call, if it
\* is still the rendered one, takes the secret.
Finish(g) ==
  /\ panel' = g.panel
  /\ widget' = [widget EXCEPT
                  !.call = NoCall,
                  !.secret = IF /\ Truthy(g.secret)
                                /\ widget.call.key = panel.widgetInstanceKey
                                /\ panel.isMountedRef
                             THEN g.secret ELSE @]

\* The broker answers the panel's POST and getClientSecret runs to its end.
CreateSessionAnswered ==
  /\ ~EffectsDue
  /\ widget.call # NoCall
  /\ \E answer \in CreateSessionAnswers :
       Finish(GetClientSecretEnd(panelVersion, panel, widget.call.currentSecret, answer))
  /\ UNCHANGED <<panelVersion, panelConfig, browser, host>>
  /\ UNCHANGED brokerVars

\* The panel's fetch rejects.
CreateSessionFails ==
  /\ ~EffectsDue
  /\ widget.call # NoCall
  /\ \E answer \in FetchRejections :
       Finish(GetClientSecretEnd(panelVersion, panel, widget.call.currentSecret, answer))
  /\ UNCHANGED <<panelVersion, panelConfig, browser, host>>
  /\ UNCHANGED brokerVars

\* A custom action on its way to the widget: where it was sent from, the
\* widget mount it went to, and whether that mount had seen a thread id.
PendingSend(origin) ==
  [origin |-> origin, mount |-> panel.widgetInstanceKey,
   threadSeen |-> widget.threadSeen, action |-> SetEpisodeContextAction(panel),
   outcome |-> "pending"]

\* There is room for one more custom action in the run.
MaySend == widget.timers + Len(widget.sends) < MaxSends

\* The widget, holding a session, starts to stream a response and calls
\* onResponseStart; the call can still arrive when the panel has unmounted.
ResponseStart ==
  /\ ~EffectsDue
  /\ Truthy(widget.secret)
  /\ LET o == onResponseStart(panelVersion, panel)
     IN /\ panel' = o.panel
        /\ o.awaits => MaySend
        /\ widget' = IF o.awaits
                     THEN [widget EXCEPT !.sends = Append(@, PendingSend("responseStart"))]
                     ELSE widget
  /\ UNCHANGED <<panelVersion, panelConfig, browser, host>>
  /\ UNCHANGED brokerVars

\* The timer of onThreadChange (setTimeout 0) fires and calls
\* sendCustomAction; nothing clears the timer.
DeferredSend ==
  /\ ~EffectsDue
  /\ widget.timers > 0
  /\ widget' = [widget EXCEPT !.timers = @ - 1,
                               !.sends = Append(@, PendingSend("thread"))]
  /\ UNCHANGED <<panelVersion, panelConfig, panel, browser, host>>
  /\ UNCHANGED brokerVars

\* The promise of a sendCustomAction settles: the send of onThreadChange
\* runs its catch when it failed, and onResponseStart goes on after its
\* await.
SendSettles ==
  /\ ~EffectsDue
  /\ \E i \in 1..Len(widget.sends), delivered \in BOOLEAN :
       /\ widget.sends[i].outcome = "pending"
       /\ widget' = [widget EXCEPT !.sends[i].outcome =
                                     IF delivered THEN "delivered" ELSE "failed"]
       /\ panel' = IF widget.sends[i].origin = "responseStart"
                    THEN ClearIntegrationError(panel)
                    ELSE IF delivered THEN panel
                    ELSE OnDeferredSendFailed(panel)
  /\ UNCHANGED <<panelVersion, panelConfig, browser, host>>
  /\ UNCHANGED brokerVars

\* A message event reaches the window of ChatKitPanel.tsx while its listener
\* is on.
WindowMessage ==
  /\ panelVersion = "ChatKitPanel"
  /\ Settled
  /\ Listening
  /\ \E e \in MessageEvents : panel' = onMessage(panel, e)
  /\ UNCHANGED <<panelVersion, panelConfig, browser, widget, host>>
  /\ UNCHANGED brokerVars

\* The widget hands a client tool call of the agent to onClientTool; the
\* host's callbacks return.
ClientTool(inv) ==
  /\ Settled
  /\ Truthy(widget.secret)
  /\ Len(host.themeRequests) + Len(host.widgetActions) < MaxHostCalls
  /\ \E answer \in HostAnswers :
     LET o == onClientTool(panelVersion, panel, browser, inv.name, inv.params)
     IN /\ panel' = o.panel
        /\ host' = [themeRequests |->
                      IF o.themeRequest = NoHostCall THEN host.themeRequests
                      ELSE Append(host.themeRequests, o.themeRequest),
                    widgetActions |->
                      IF o.widgetAction = NoHostCall THEN host.widgetActions
                      ELSE Append(host.widgetActions, o.widgetAction),
                    result |-> ToolReturn(panelVersion, o, answer),
                    threadStart |-> host.threadStart,
                    mountStart |-> host.mountStart]
  /\ UNCHANGED <<panelVersion, panelConfig, browser, widget>>
  /\ UNCHANGED brokerVars

OnClientTool == \E inv \in ToolInvocations : ClientTool(inv)

\* onThreadChange was given a thread id and has read it: the handlers of
\* ChatKitPanel.tsx and part_003 take no argument.
ThreadIdRead(v, threadId) == v = "part_004" /\ Truthy(threadId)

\* The widget moves to another thread, or to no thread.
ThreadChange ==
  /\ Settled
  /\ Truthy(widget.secret)
  /\ \E threadId \in ThreadIds :
       LET o == onThreadChange(panelVersion, panel, threadId)
       IN /\ panel' = o.panel
          /\ o.scheduled => MaySend
          /\ widget' = [widget EXCEPT
                          !.timers = IF o.scheduled THEN @ + 1 ELSE @,
                          !.threadSeen = @ \/ ThreadIdRead(panelVersion, threadId)]
  /\ host' = [host EXCEPT !.threadStart = Len(host.widgetActions)]
  /\ UNCHANGED <<panelVersion, panelConfig, browser>>
  /\ UNCHANGED brokerVars

\* The agent asks for the episode through the client tool of part_003.
RequestEpisodeContextTool ==
  ClientTool([name |-> "request_episode_context", params |-> EmptyObject])

\* handleResetChat is called; the widget is mounted again under its new key
\* and holds no secret.
ResetChat ==
  /\ Settled
  /\ panel.widgetInstanceKey < MaxResets
  /\ panel' = handleResetChat(panel, browser)
  /\ widget' = [widget EXCEPT !.secret = Null, !.threadSeen = FALSE]
  /\ host' = [host EXCEPT !.mountStart = Len(host.widgetActions)]
  /\ UNCHANGED <<panelVersion, panelConfig, browser>>
  /\ UNCHANGED brokerVars

\* The component unmounts: the cleanups of its effects run. The widget may
\* still deliver a callback of the session it holds.
Unmount ==
  /\ Settled
  /\ panel' = [panel EXCEPT !.isMountedRef = FALSE]
  /\ browser' = [browser EXCEPT !.timeoutId = "none"]
  /\ UNCHANGED <<panelVersion, panelConfig, widget, host>>
  /\ UNCHANGED brokerVars

PanelNext ==
  \/ MountEffects
  \/ ScriptEffect
  \/ RegisterElement
  \/ ScriptLoadedEvent
  \/ ScriptErrorEvent
  \/ TimerFires
  \/ GetClientSecret
  \/ CreateSessionAnswered
  \/ CreateSessionFails
  \/ ResponseStart
  \/ OnClientTool
  \/ ThreadChange
  \/ ResetChat
  \/ Unmount

PanelSpec == PanelInit /\ [][PanelNext]_vars

\* The panel, its vendor script loaded and its workflow configured, on a
\* page that may pass it an episode.
EpisodeInit ==
  PanelStart(PanelVersions, {[WORKFLOW_ID |-> <<"w","f","_","1">>]}, {TRUE}, Locations)

EpisodeNext ==
  \/ MountEffects
  \/ WindowMessage
  \/ GetClientSecret
  \/ CreateSessionAnswered
  \/ CreateSessionFails
  \/ ThreadChange
  \/ ResponseStart
  \/ DeferredSend
  \/ SendSettles
  \/ RequestEpisodeContextTool
  \/ ResetChat
  \/ Unmount

EpisodeSpec == EpisodeInit /\ [][EpisodeNext]_vars

-----------------------------------------------------------------------------
(* The panel and the broker together: the panel's POST is handled by the   *)
(* broker and the broker's response ends getClientSecret.                  *)

\* JSON.stringify of a response payload, read back by JSON.parse: the
\* properties whose value is undefined are left out.
RECURSIVE JsonRoundTrip(_)
JsonRoundTrip(v) ==
  IF "t" \in DOMAIN v /\ v.t # "obj" THEN v
  ELSE LET kept == {f \in DOMAIN v \ {"t"} : v[f].t # "undef"}
       IN [f \in kept \cup {"t"} |-> IF f = "t" THEN "obj" ELSE JsonRoundTrip(v[f])]

\* response.statusText: the reason phrase over HTTP/1.1.
ReasonPhrase(status) ==
  CASE status = 200 -> <<"OK">>
    [] status = 400 -> <<"Bad Request">>
    [] status = 500 -> <<"Internal Server Error">>
    [] status = 503 -> <<"Service Unavailable">>
    [] OTHER -> <<"Error">>

\* The response of the broker as the panel's fetch resolves to it.
FetchedResponse(r, statusText) ==
  SessionAnswer(r.status, statusText,
                [form |-> "json", value |-> JsonRoundTrip(r.body)])

\* The panel and a deployment of the broker: the script is loaded and the
\* workflow configured on both sides.
EndToEndInit ==
  /\ version \in Versions
  /\ env \in {e \in Environments : e.nodeEnv = "production"}
  /\ jar \in {Null, Str(LegacyId)}
  /\ issued = Null
  /\ pc = "idle"
  /\ req = NoRequest
  /\ local = NoLocals
  /\ calls = <<>>
  /\ log = <<>>
  /\ reply = NoReply
  /\ resp = NoResponse
  /\ PanelMounted(PanelVersions, {[WORKFLOW_ID |-> <<"w","f","_","1">>]}, {TRUE},
                  {NoLocation})

\* The fetch of getClientSecret reaches the broker, with the cookies of the
\* browser.
PanelPosts ==
  /\ widget.call # NoCall
  /\ pc = "idle"
  /\ \E cookie \in CookieHeaders(jar) :
       req' = [cookie |-> cookie,
               body |-> [form |-> "json", value |-> widget.call.payload]]
  /\ pc' = "received"
  /\ UNCHANGED <<version, env, jar, issued, local, calls, log, reply, resp>>
  /\ UNCHANGED panelVars

\* The browser takes the broker's response, stores the cookie it sets, and
\* getClientSecret runs to its end.
PanelReceives ==
  /\ pc = "responded"
  /\ widget.call # NoCall
  /\ ~EffectsDue
  /\ \E statusText \in {<<>>, ReasonPhrase(resp.status)} :
       Finish(GetClientSecretEnd(panelVersion, panel, widget.call.currentSecret,
                                 FetchedResponse(resp, statusText)))
  /\ IF resp.setCookie # Null
     THEN /\ jar' = Str(StoredValue(resp.setCookie.s))
          /\ issued' = Str(local.userId)
     ELSE UNCHANGED <<jar, issued>>
  /\ pc' = "idle"
  /\ req' = NoRequest
  /\ local' = NoLocals
  /\ calls' = <<>>
  /\ log' = <<>>
  /\ reply' = NoReply
  /\ resp' = NoResponse
  /\ UNCHANGED <<version, env, panelVersion, panelConfig, browser, host>>

EndToEndNext ==
  \/ MountEffects
  \/ GetClientSecret
  \/ PanelPosts
  \/ Receive
  \/ UpstreamRetry
  \/ UpstreamReply
  \/ FetchThrows
  \/ PanelReceives
  \/ ResetChat
  \/ Unmount

EndToEndSpec == EndToEndInit /\ [][EndToEndNext]_vars

-----------------------------------------------------------------------------
(* C14 *)

\* The panel took the script for loaded in this step.
ScriptTakenForLoaded ==
  /\ panel'.scriptStatus = "ready"
  /\ panel'.errors.script = Null

\* The panel took the script for unavailable in this step.
ScriptTakenForUnavailable ==
  /\ panel'.scriptStatus = "error"
  /\ panel'.errors.script =
       Str(MSG_ERROR_PREFIX \o ScriptUnavailableDetail(panelVersion))
  /\ panel'.errors.retryable = FALSE

\* C14: a run of the script effect that finds the custom element registered,
\* and a chatkit-script-loaded event, leave the script status "ready" and
\* errors.script null; the 5-second timer firing while the element is not
\* registered leaves the status "error", a script error message and
\* retryable = false.
C14_ScriptLifecycle ==
  [][/\ ((MountEffects \/ ScriptEffect) /\ browser.registered) => ScriptTakenForLoaded
     /\ ScriptLoadedEvent => ScriptTakenForLoaded
     /\ (TimerFires /\ ~browser.registered) => ScriptTakenForUnavailable]_vars

\* The timer has fired on a page where the element never registered.
C14_Witness ==
  /\ panel.scriptStatus = "error"
  /\ panel.errors.script =
       Str(MSG_ERROR_PREFIX \o ScriptUnavailableDetail(panelVersion))
  /\ ~browser.registered

\* The loaded event has moved a pending status to ready.
C14_WitnessLoaded ==
  /\ panel.scriptStatus = "ready"
  /\ panel.errors.script = Null
  /\ browser.effectFor = "pending"

\* The loaded event came after the timer: the script error is cleared.
C14_WitnessLate ==
  /\ panel.scriptStatus = "ready"
  /\ panel.errors.script = Null
  /\ browser.effectFor = "error"

-----------------------------------------------------------------------------
(* C15 *)

\* The session is in error: its slot holds a message, whatever its text.
SessionInError == panel.errors.session # Null

WidgetHidden == WidgetClassName(panel) = "pointer-events-none opacity-0"

\* C15 as stated: in every state of the mounted panel the widget has the
\* class "pointer-events-none opacity-0" whenever the script status is not
\* "ready", the session is initializing or the session is in error.
C15_AsStated ==
  (/\ panel.isMountedRef
   /\ \/ panel.scriptStatus # "ready"
      \/ panel.isInitializingSession
      \/ SessionInError)
  => WidgetHidden

\* The part of C15 on the session alone.
C15_SessionPart ==
  (panel.isMountedRef /\ (panel.isInitializingSession \/ SessionInError))
  => WidgetHidden

\* The part of C15 on the script status alone.
C15_ScriptPart ==
  (panel.isMountedRef /\ panel.scriptStatus # "ready") => WidgetHidden

-----------------------------------------------------------------------------
(* C16 *)

\* The slots in the order of their precedence.
ErrorSlots == <<panel.errors.script, panel.errors.session, panel.errors.integration>>

\* The overlay has one error prop: it holds the first slot that is not null,
\* and null when every slot is.
ShowsFirstError ==
  IF \A k \in 1..3 : ErrorSlots[k] = Null
  THEN OverlayError(panel) = Null
  ELSE LET first == CHOOSE k \in 1..3 :
                      ErrorSlots[k] # Null /\ \A j \in 1..(k - 1) : ErrorSlots[j] = Null
       IN OverlayError(panel) = ErrorSlots[first]

ShowsScriptError ==
  panel.errors.script # Null => OverlayError(panel) = panel.errors.script

\* The slot keeps its value in this step.
Kept(slot) == panel'.errors[slot] = panel.errors[slot]

\* The handlers of the script lifecycle write the script slot only, those of
\* the session the session and integration slots, onResponseStart the
\* integration slot.
SlotsFramed ==
  /\ (ScriptEffect \/ ScriptLoadedEvent \/ ScriptErrorEvent \/ TimerFires)
       => (Kept("session") /\ Kept("integration"))
  /\ (GetClientSecret \/ CreateSessionAnswered \/ CreateSessionFails)
       => Kept("script")
  /\ ResponseStart => (Kept("script") /\ Kept("session"))
  /\ (OnClientTool \/ ThreadChange \/ RegisterElement \/ Unmount)
       => (Kept("script") /\ Kept("session") /\ Kept("integration"))

\* C16: the overlay shows the first non-null of errors.script,
\* errors.session, errors.integration, so the script error whenever there is
\* one; and a handler that sets or clears a slot leaves the other slots as
\* they are.
C16_ErrorPrecedence ==
  [](ShowsFirstError /\ ShowsScriptError) /\ [][SlotsFramed]_vars

\* A script error and a session error at once: the overlay shows the first.
C16_Witness ==
  /\ panel.errors.script # Null
  /\ panel.errors.session # Null
  /\ OverlayError(panel) = panel.errors.script
  /\ OverlayError(panel) # panel.errors.session

\* The session error is shown when there is no script error.
C16_WitnessSession ==
  /\ panel.errors.script = Null
  /\ Truthy(panel.errors.session)
  /\ OverlayError(panel) = panel.errors.session

-----------------------------------------------------------------------------
(* C17 *)

\* C17: from whatever state handleResetChat is called, it leaves the three
\* error slots null and retryable false, the set of processed facts empty
\* and the session initializing, and the widget's key is greater than it
\* was.
C17_Reset ==
  [][ResetChat =>
       /\ panel'.errors = [script |-> Null, session |-> Null,
                           integration |-> Null, retryable |-> FALSE]
       /\ panel'.processedFacts = {}
       /\ panel'.isInitializingSession = TRUE
       /\ panel'.widgetInstanceKey > panel.widgetInstanceKey]_vars

\* A reset of part_004 (whose thread changes keep the processed facts) after
\* a fact was forwarded: the set is empty again.
C17_Witness ==
  /\ panelVersion = "part_004"
  /\ panel.widgetInstanceKey = 1
  /\ host.widgetActions # <<>>
  /\ panel.processedFacts = {}
  /\ panel.errors = createInitialErrors
  /\ panel.isInitializingSession

-----------------------------------------------------------------------------
(* C18 *)

\* A getClientSecret call of the mounted panel ended in this step with a
\* session error.
SessionCreationFailed ==
  /\ CreateSessionAnswered \/ CreateSessionFails
  /\ panel.isMountedRef
  /\ panel'.errors.session # Null

\* The script failed to load in this step: the error event, or the timer.
ScriptLoadFailed ==
  /\ ScriptErrorEvent \/ TimerFires
  /\ panel'.scriptStatus = "error"

\* C18 as stated: a failed session creation leaves errors.retryable true and
\* the overlay offers the reset; a failed script load leaves it false.
C18_AsStated ==
  [][/\ SessionCreationFailed =>
          (panel'.errors.retryable = TRUE /\ OverlayOffersRetry(panel'))
     /\ ScriptLoadFailed => panel'.errors.retryable = FALSE]_vars

\* The half of C18 on script errors.
C18_ScriptPart ==
  [][ScriptLoadFailed => panel'.errors.retryable = FALSE]_vars

-----------------------------------------------------------------------------
(* C19 *)

\* What a client tool reported to the widget: its result object holds true,
\* or false, under `success` (under `ok` in part_003).
ReportsSuccess(result) ==
  result \in {[t |-> "obj", success |-> TRUE], [t |-> "obj", ok |-> TRUE]}
ReportsFailure(result) ==
  result \in {[t |-> "obj", success |-> FALSE], [t |-> "obj", ok |-> FALSE]}

\* The step called neither onThemeRequest nor onWidgetAction.
NoHostCallback ==
  /\ host'.themeRequests = host.themeRequests
  /\ host'.widgetActions = host.widgetActions

ValidThemes == {Str(<<"l","i","g","h","t">>), Str(<<"d","a","r","k">>)}

\* C19: a switch_theme call whose theme is exactly "light" or "dark" calls
\* onThemeRequest once with that value and reports success; with any other
\* value it calls no host callback and reports failure; and a tool of another
\* name than switch_theme and record_fact calls no host callback and reports
\* failure.
C19_SwitchTheme ==
  [][\A inv \in ToolInvocations :
       ClientTool(inv) =>
         CASE inv.name = "switch_theme" /\ inv.params.theme \in ValidThemes ->
                /\ host'.themeRequests = Append(host.themeRequests, inv.params.theme)
                /\ host'.widgetActions = host.widgetActions
                /\ ReportsSuccess(host'.result)
           [] inv.name = "switch_theme" /\ inv.params.theme \notin ValidThemes ->
                NoHostCallback /\ ReportsFailure(host'.result)
           [] inv.name \notin {"switch_theme", "record_fact"} ->
                NoHostCallback /\ ReportsFailure(host'.result)
           [] OTHER -> TRUE]_vars

\* onThemeRequest("light") then onThemeRequest("dark").
C19_Witness ==
  /\ host.themeRequests = <<Str(<<"l","i","g","h","t">>), Str(<<"d","a","r","k">>)>>
  /\ ReportsSuccess(host.result)

\* A refused call: nothing reached the host.
C19_WitnessRefused ==
  /\ host.themeRequests = <<>>
  /\ host.widgetActions = <<>>
  /\ ReportsFailure(host.result)

-----------------------------------------------------------------------------
(* C20 *)

\* The fact id and the fact text of a record_fact call as strings: a string
\* is itself, a number its digits, and a missing value the empty string.
TextOf(v) == IF v.t \in {"str", "num"} THEN v.s ELSE <<>>

\* The words of a string: its maximal runs of characters that are not white
\* space.
RECURSIVE Words(_, _)
Words(str, word) ==
  IF str = <<>> THEN (IF word = <<>> THEN <<>> ELSE <<word>>)
  ELSE IF Head(str) \in {" ", "\t", "\n"}
  THEN (IF word = <<>> THEN <<>> ELSE <<word>>) \o Words(Tail(str), <<>>)
  ELSE Words(Tail(str), Append(word, Head(str)))

\* The text with its white space normalised: its words, one space apart.
Normalised(text) == Join(Words(text, <<>>), <<" ">>)

\* The save action the host expects for a record_fact call.
SaveAction(params) ==
  [type |-> "save", factId |-> TextOf(params.fact_id),
   factText |-> Normalised(TextOf(params.fact_text))]

\* The fact ids the host was handed after its first k facts.
SavedSince(h, k) == [i \in 1..(Len(h.widgetActions) - k) |-> h.widgetActions[k + i].factId]

NoRepeat(ids) == \A i, j \in 1..Len(ids) : ids[i] = ids[j] => i = j

Occurs(id, ids) == \E i \in 1..Len(ids) : ids[i] = id

\* The step forwarded a fact to onWidgetAction.
Forwarded == Len(host'.widgetActions) = Len(host.widgetActions) + 1

\* What a record_fact call hands the host, counting from the host's k-th
\* fact: nothing when the id is empty or missing, or was handed over
\* already; otherwise the save action, with the normalised text, once.
ForwardsOnce(inv, k) ==
  /\ host'.themeRequests = host.themeRequests
  /\ IF TextOf(inv.params.fact_id) = <<>> \/
        Occurs(TextOf(inv.params.fact_id), SavedSince(host, k))
     THEN host'.widgetActions = host.widgetActions
     ELSE host'.widgetActions = Append(host.widgetActions, SaveAction(inv.params))

\* Every record_fact call reports success and forwards once.
RecordFactSteps(k) ==
  \A inv \in ToolInvocations :
     (inv.name = "record_fact" /\ ClientTool(inv)) =>
       /\ ReportsSuccess(host'.result)
       /\ ForwardsOnce(inv, k)

\* The same, except that in part_003 a call that forwarded a fact may be
\* rejected instead, which is when the host's promise is.
RecordFactStepsAwaited(k) ==
  \A inv \in ToolInvocations :
     (inv.name = "record_fact" /\ ClientTool(inv)) =>
       /\ \/ ReportsSuccess(host'.result)
          \/ /\ panelVersion = "part_003"
             /\ Forwarded
             /\ host'.result = ToolRejected
       /\ ForwardsOnce(inv, k)

\* Where the de-duplication starts again: at a reset, and at a thread change
\* except in part_004.
DedupStart ==
  IF panelVersion = "part_004" \/ host.mountStart > host.threadStart
  THEN host.mountStart ELSE host.threadStart

\* C20 as stated, a sequence of record_fact invocations being one that no
\* reset or clearing thread change interrupts: onWidgetAction is called
\* exactly once for each distinct non-empty fact id, never twice for one id,
\* with the normalised text; a call without an id does not reach it; every
\* call reports success.
C20_AsStated ==
  /\ [](NoRepeat(SavedSince(host, DedupStart)))
  /\ [][RecordFactSteps(DedupStart)]_vars

\* C20 amended: counted from the last reset or thread change (from the last
\* reset in part_004), onWidgetAction is called exactly once for each
\* distinct non-empty fact id, with the normalised text; a call without an
\* id does not reach it; every call reports success, except that in
\* part_003 a call whose fact the host's promise rejects is rejected.
C20_RecordFact ==
  /\ [](NoRepeat(SavedSince(host, DedupStart)))
  /\ [][RecordFactStepsAwaited(DedupStart)]_vars

\* Two facts have reached the host, with their texts normalised.
C20_Witness ==
  /\ host.widgetActions =
       <<[type |-> "save", factId |-> <<"f", "1">>, factText |-> <<"a", " ", "b">>],
         [type |-> "save", factId |-> <<"7">>, factText |-> <<>>]>>
  /\ ReportsSuccess(host.result)
  /\ DedupStart = 0

\* In part_003 a fact reached the host and the call was rejected.
C20_WitnessRejected ==
  /\ panelVersion = "part_003"
  /\ Len(host.widgetActions) = 1
  /\ host.result = ToolRejected
  /\ host.widgetActions[1].factId \in panel.processedFacts

-----------------------------------------------------------------------------
(* C21 *)

\* The step emptied the set of processed fact ids.
FactsEmptied == panel.processedFacts # {} /\ panel'.processedFacts = {}

\* C21 as stated: every thread change and every reset leaves the set of
\* processed fact ids empty, and no other step empties it, so that a fact id
\* recorded before either event is forwarded again when it is sent again.
C21_AsStated ==
  [][/\ (ThreadChange \/ ResetChat) => panel'.processedFacts = {}
     /\ FactsEmptied => (ThreadChange \/ ResetChat)]_vars

\* C21 for the reset, and for the thread change outside part_004.
C21_ExceptThreadChangeOfPart004 ==
  [][/\ ResetChat => panel'.processedFacts = {}
     /\ (ThreadChange /\ panelVersion # "part_004") => panel'.processedFacts = {}
     /\ (ThreadChange /\ panelVersion = "part_004")
          => panel'.processedFacts = panel.processedFacts
     /\ FactsEmptied => (ThreadChange \/ ResetChat)]_vars

\* In part_004 a fact id is still recorded as processed after a thread
\* change.
C21_KeptOverThreadChange ==
  /\ panelVersion = "part_004"
  /\ host.threadStart = 1
  /\ Len(host.widgetActions) = 1
  /\ host.widgetActions[1].factId \in panel.processedFacts

-----------------------------------------------------------------------------
(* C25 *)

\* An episode field as the client supplied it, null when it did not.
SuppliedField(f) == Coalesce(OptProp(safeParseJson(req.body), f), Null)

\* The client supplied at least one non-empty episode field.
SuppliedEpisode ==
  Truthy(SuppliedField("episodeCode")) \/ Truthy(SuppliedField("title")) \/ Truthy(SuppliedField("mp3"))

\* The metadata an upstream payload carries, at its top level or under
\* session; undefined when it carries none.
MetadataOf(payload) ==
  IF payload.metadata # Undef THEN payload.metadata
  ELSE IF payload.session # Undef THEN payload.session.metadata
  ELSE Undef

\* The payload carries workflow and user and nothing else.
OnlyWorkflowAndUser(payload) == payload.metadata = Undef /\ payload.session = Undef

\* The payload carries the supplied episode fields as its metadata.
CarriesSupplied(payload) ==
  MetadataOf(payload) = [t |-> "obj", episodeCode |-> SuppliedField("episodeCode"),
                         title |-> SuppliedField("title"), mp3 |-> SuppliedField("mp3")]

\* C25 as stated: every upstream request carries the episode fields as
\* metadata when the client supplied a non-empty one, and only workflow and
\* user otherwise.
C25_AsStated ==
  \A i \in 1..Len(calls) :
     IF SuppliedEpisode THEN CarriesSupplied(calls[i])
     ELSE OnlyWorkflowAndUser(calls[i])

\* C25 amended: so it is in part_000, part_001 and part_002 (under session
\* in part_000, part_001 and the second request of part_002, at the top
\* level in the first request of part_002); route.ts never attaches
\* metadata.
C25_EpisodeMetadata ==
  \A i \in 1..Len(calls) :
     IF version = "route" \/ ~SuppliedEpisode
     THEN OnlyWorkflowAndUser(calls[i])
     ELSE /\ CarriesSupplied(calls[i])
          /\ (calls[i].metadata # Undef) = (version = "part_002" /\ i = 1)

\* part_000 has sent the title of a request without an episode code.
C25_Witness ==
  /\ version = "part_000"
  /\ Len(calls) = 1
  /\ ~Truthy(SuppliedField("episodeCode"))
  /\ MetadataOf(calls[1]).title = Str(<<"T1">>)

\* route.ts has sent a request of a client that supplied an episode.
C25_WitnessRoute ==
  /\ version = "route"
  /\ Len(calls) = 1
  /\ SuppliedEpisode
  /\ OnlyWorkflowAndUser(calls[1])

-----------------------------------------------------------------------------
(* C26 *)

\* The message of an upstream reply: its top-level message, else its error
\* when that is a string, else the message of its error; empty otherwise.
MessageOfReply(r) ==
  LET body == IF r.body.form = "json" THEN r.body.value ELSE Undef
      top == OptProp(body, "message")
      err == OptProp(body, "error")
  IN IF top.t = "str" THEN top.s
     ELSE IF err.t = "str" THEN err.s
     ELSE IF OptProp(err, "message").t = "str" THEN OptProp(err, "message").s
     ELSE <<>>

\* The reply is a 400 whose message names an unknown parameter and metadata,
\* in letters of either case.
UnknownMetadataReply(r) ==
  /\ r.status = 400
  /\ Includes(ToLowerCase(MessageOfReply(r)), <<"u","n","k","n","o","w","n"," ","p","a","r","a","m","e","t","e","r">>)
  /\ Includes(ToLowerCase(MessageOfReply(r)), <<"m","e","t","a","d","a","t","a">>)

\* The answer is made from the reply r: the session of a 2xx reply, and
\* the status and the parsed body of any other.
AnswerOf(r) ==
  LET parsed == IF r.body.form = "json" /\ r.body.value # Null THEN r.body.value
                ELSE IF r.body.form = "json" THEN Null
                ELSE [t |-> "obj"]
  IN IF r.status \in 200..299
     THEN /\ resp'.status = 200
          /\ resp'.body.client_secret = Coalesce(OptProp(parsed, "client_secret"), Null)
          /\ resp'.body.expires_after = Coalesce(OptProp(parsed, "expires_after"), Null)
     ELSE /\ resp'.status = r.status
          /\ resp'.body.error = parsed

\* The handler of part_002 waits for the reply to its n-th upstream call.
AwaitsReply(n) == version = "part_002" /\ pc = "fetching" /\ Len(calls) = n

\* C26: part_002 makes its second upstream call, with the metadata under
\* session, exactly when the reply to the first is a 400 whose message
\* contains "unknown parameter" and "metadata" in either case; every other
\* reply to the first call is answered from that reply, and the reply to
\* the second call is answered from the second reply alone.
C26_RetryFallback ==
  [][/\ (AwaitsReply(1) /\ reply' # NoReply) =>
          IF UnknownMetadataReply(reply')
          THEN /\ pc' = "fetching"
               /\ Len(calls') = 2
               /\ calls'[1] = calls[1]
               /\ calls'[2].metadata = Undef
               /\ calls'[2].session =
                    (IF calls[1].metadata = Undef THEN Undef
                     ELSE [t |-> "obj", metadata |-> calls[1].metadata])
          ELSE /\ pc' = "responded"
               /\ calls' = calls
               /\ AnswerOf(reply')
     /\ (AwaitsReply(2) /\ reply' # NoReply /\ pc' # pc) =>
          /\ pc' = "responded"
          /\ calls' = calls
          /\ AnswerOf(reply')
     /\ version = "part_002" => Len(calls') <= 2]_vars

\* part_002 has answered its second call, which was refused like the first,
\* with the second reply.
C26_Witness ==
  /\ version = "part_002"
  /\ pc = "responded"
  /\ Len(calls) = 2
  /\ UnknownMetadataReply(reply)
  /\ resp.status = 400

\* part_002 has answered a first reply of status 503 that names the unknown
\* parameter, without a second call.
C26_WitnessNoRetry ==
  /\ version = "part_002"
  /\ pc = "responded"
  /\ Len(calls) = 1
  /\ reply # NoReply
  /\ reply.status = 503
  /\ Includes(ToLowerCase(MessageOfReply(reply)), <<"m","e","t","a","d","a","t","a">>)
  /\ resp.status = 503

\* part_002 has answered with the session of the second reply.
C26_WitnessSession ==
  /\ version = "part_002"
  /\ pc = "responded"
  /\ Len(calls) = 2
  /\ resp.status = 200
  /\ resp.body.client_secret = Str(<<"sk_abc">>)

-----------------------------------------------------------------------------
(* C27 *)

\* The session status of the panel: in error when a session error is set,
\* else initializing or ready as isInitializingSession tells.
SessionStatus ==
  IF panel.errors.session # Null THEN "error"
  ELSE IF panel.isInitializingSession THEN "initializing"
  ELSE "ready"

SessionStatusNext ==
  IF panel'.errors.session # Null THEN "error"
  ELSE IF panel'.isInitializingSession THEN "initializing"
  ELSE "ready"

\* The step leaves the widget mounted as it is.
SameMount == panel'.widgetInstanceKey = panel.widgetInstanceKey

ScriptMoves(from, to) == panel.scriptStatus = from /\ panel'.scriptStatus = to

SessionMoves(from, to) == SessionStatus = from /\ SessionStatusNext = to

C27_WitnessRefreshFailed ==
  /\ panel.isMountedRef
  /\ Truthy(widget.secret)
  /\ widget.call = NoCall
  /\ SessionStatus = "error"

-----------------------------------------------------------------------------
(* C30 *)

\* The step ends the pending call of getClientSecret with this answer to
\* its fetch.
CallEndsWith(answer) ==
  /\ widget.call # NoCall
  /\ Finish(GetClientSecretEnd(panelVersion, panel, widget.call.currentSecret, answer))

\* The answer is a failure: the fetch was rejected, the status is not 2xx,
\* or the body holds no client secret.
FailedAnswer(answer) ==
  \/ answer.t = "rejected"
  \/ answer.status \notin 200..299
  \/ ~Truthy(OptProp(parseJsonSafe(answer.body), "client_secret"))

\* The call was made with no current secret by the panel that is mounted.
FirstCallOfMounted == panel.isMountedRef /\ ~Truthy(widget.call.currentSecret)

\* The overlay shows "Loading assistant session..." and no error.
LoadingWithoutError ==
  ~Truthy(OverlayError(panel)) /\ OverlayFallbackMessage(panel) # Null

\* C30 as stated: a call of getClientSecret with no current secret, made
\* and ended while the panel is mounted, ends with isInitializingSession
\* false, and with a session error set when it failed.
C30_AsStated ==
  [][\A answer \in CreateSessionAnswers \cup FetchRejections :
       (CallEndsWith(answer) /\ FirstCallOfMounted) =>
         /\ ~panel'.isInitializingSession
         /\ FailedAnswer(answer) => panel'.errors.session # Null]_vars

\* C30 holds in ChatKitPanel.tsx.
C30_InChatKitPanel ==
  [][\A answer \in CreateSessionAnswers \cup FetchRejections :
       (CallEndsWith(answer) /\ FirstCallOfMounted /\ panelVersion = "ChatKitPanel") =>
         /\ ~panel'.isInitializingSession
         /\ FailedAnswer(answer) => panel'.errors.session # Null]_vars

\* part_003 or part_004 is left loading with no error shown and no call
\* pending, after a call that was answered non-2xx with an empty status text.
C30_StuckLoading ==
  /\ panelVersion \in {"part_003", "part_004"}
  /\ panel.isMountedRef
  /\ widget.call = NoCall
  /\ widget.secret = Null
  /\ panel.errors.session = Str(<<>>)
  /\ LoadingWithoutError

-----------------------------------------------------------------------------
(* C22 *)

\* The step leaves the error, script-status and session-initializing state
\* of the panel as they are.
PanelStateKept ==
  /\ panel'.errors = panel.errors
  /\ panel'.scriptStatus = panel.scriptStatus
  /\ panel'.isInitializingSession = panel.isInitializingSession

\* After the unmount no step changes the error, script-status or
\* session-initializing state: the handlers of the script events and of the
\* timer are removed, and an ending getClientSecret finds the flag down.
C22_NothingChanges == [][~panel.isMountedRef => PanelStateKept]_vars

\* C22 as stated: after the unmount no completion applies an update to that
\* state: none changes it and none calls a setter of it.
C22_AsStated ==
  [][/\ ~panel.isMountedRef => PanelStateKept
     /\ ~panel'.updatedAfterUnmount]_vars

\* onResponseStart has called setErrorState for the unmounted panel.
C22_SetterCalled ==
  /\ ~panel.isMountedRef
  /\ panel.updatedAfterUnmount

-----------------------------------------------------------------------------
(* C23 *)

\* A field a context does not have reads as undefined, whether it is left
\* out, null, undefined or empty.
FieldOrAbsent(v) == Or(v, Undef)

\* The code, title and mp3 of an episode context; part_003 names the code
\* episodeCode.
ContextFields(ctx) ==
  IF IsNullish(ctx) THEN Null
  ELSE [code |-> FieldOrAbsent(Or(Prop(ctx, "code"), Prop(ctx, "episodeCode"))),
        title |-> FieldOrAbsent(Prop(ctx, "title")),
        mp3 |-> FieldOrAbsent(Prop(ctx, "mp3"))]

\* The code, title and mp3 a query string names.
FieldsOfQuery(query) ==
  [code |-> FieldOrAbsent(SearchParamsGet(query, "episodeCode")),
   title |-> FieldOrAbsent(SearchParamsGet(query, "title")),
   mp3 |-> FieldOrAbsent(SearchParamsGet(query, "mp3"))]

\* The referrer parses and its query string yields an episode code.
ReferrerYieldsCode(b) ==
  /\ b.referrer.t = "url"
  /\ Truthy(SearchParamsGet(b.referrer.query, "episodeCode"))

OwnQueryYieldsCode(b) == Truthy(SearchParamsGet(b.search, "episodeCode"))

\* The stated precedence: the referrer when it yields a code, otherwise the
\* iframe's own query string, otherwise nothing.
ContextByPrecedence(b) ==
  IF ReferrerYieldsCode(b) THEN FieldsOfQuery(b.referrer.query)
  ELSE IF OwnQueryYieldsCode(b) THEN FieldsOfQuery(b.search)
  ELSE Null

\* The panel versions that read the referrer.
ReadsReferrer == panelVersion \in {"part_003", "part_004"}

\* A set_episode_context action was sent or is scheduled.
ContextInjected == widget.sends # <<>> \/ widget.timers > 0

\* C23 as stated: the resolved context is the one the precedence gives, and
\* when no page yields a code it is null, nothing is injected and the
\* request_episode_context tool attaches nothing.
C23_AsStated ==
  ReadsReferrer =>
    /\ ContextFields(panel.episodeCtx) = ContextByPrecedence(browser)
    /\ ContextByPrecedence(browser) = Null =>
         /\ ~ContextInjected
         /\ panelVersion = "part_003" =>
              ContextFields(RequestEpisodeContext(panel, browser)) \in
                {Null, [code |-> Undef, title |-> Undef, mp3 |-> Undef]}

\* In part_004 the context is the one the precedence gives.
C23_InPart004 ==
  panelVersion = "part_004" =>
    /\ ContextFields(panel.episodeCtx) = ContextByPrecedence(browser)
    /\ ContextByPrecedence(browser) = Null => ~ContextInjected

\* In part_003 the code is the one the precedence gives.
C23_CodeInPart003 ==
  panelVersion = "part_003" =>
    /\ IsNullish(panel.episodeCtx) <=> ContextByPrecedence(browser) = Null
    /\ ~IsNullish(panel.episodeCtx) =>
         ContextFields(panel.episodeCtx).code = ContextByPrecedence(browser).code

\* part_003 has the code of the iframe's page with a title or an mp3 of the
\* parent page.
C23_MixedContext ==
  /\ panelVersion = "part_003"
  /\ ~ReferrerYieldsCode(browser)
  /\ OwnQueryYieldsCode(browser)
  /\ ContextFields(panel.episodeCtx) # FieldsOfQuery(browser.search)

-----------------------------------------------------------------------------
(* C24 *)

\* The episode context of the panel is another one after the step.
ContextChanges == panel'.episodeCtx # panel.episodeCtx

\* The step reads the URL query parameters and takes the context from them.
TakenFromUrl ==
  /\ MountEffects
  /\ ContextFields(panel'.episodeCtx) = FieldsOfQuery(browser.search)

\* The parent page of an allowed origin announces an episode with a code.
AnnouncesEpisode(e) ==
  /\ e.origin \in ALLOWED_PARENTS
  /\ Truthy(e.data)
  /\ Prop(e.data, "type") = Str(<<"le-episode-context">>)
  /\ Truthy(Prop(e.data, "code"))
  /\ Trim(Prop(e.data, "code").s) # <<>>

\* The step takes the context from a message event in which an allowed
\* parent page announces an episode.
TakenFromMessage ==
  /\ WindowMessage
  /\ \E e \in MessageEvents :
       /\ AnnouncesEpisode(e)
       /\ panel'.episodeCtx.code = Str(Trim(Prop(e.data, "code").s))
       /\ panel'.episodeCtx.title = TrimmedOrUndefined(Prop(e.data, "title"))
       /\ panel'.episodeCtx.mp3 = TrimmedOrUndefined(Prop(e.data, "mp3"))

\* C24 as stated: the episode context changes only in the step that reads
\* the URL; no window message event changes it.
C24_AsStated == [][ContextChanges => TakenFromUrl]_vars

\* C24, amended: the episode context changes only in the step that reads
\* the URL query parameters, or when a window message of type
\* le-episode-context from an allowed parent origin names a code that is not
\* blank; a message of another origin or type, or without a code, leaves it.
C24_UrlOrAllowedMessage == [][ContextChanges => (TakenFromUrl \/ TakenFromMessage)]_vars

\* The panel has the episode of a window message in place of the one its
\* URL named.
C24_Witness ==
  /\ panelVersion = "ChatKitPanel"
  /\ Truthy(SearchParamsGet(browser.search, "episodeCode"))
  /\ ContextFields(panel.episodeCtx) =
       [code |-> Str(<<"E3">>), title |-> Str(<<"T3">>), mp3 |-> Undef]

\* The panel has taken the context from its URL.
C24_WitnessUrl ==
  /\ panelVersion = "ChatKitPanel"
  /\ ~IsNullish(panel.episodeCtx)
  /\ ContextFields(panel.episodeCtx) = FieldsOfQuery(browser.search)

-----------------------------------------------------------------------------
(* C28 *)

\* The set_episode_context actions that were delivered to the widget
\* mounted under the key k.
DeliveredTo(k) ==
  {i \in 1..Len(widget.sends) :
     widget.sends[i].mount = k /\ widget.sends[i].outcome = "delivered"}

AtMostOncePerMount == \A k \in 0..MaxResets : Cardinality(DeliveredTo(k)) <= 1

\* Every action sent carries the episode code that was resolved.
SentWithCode ==
  \A i \in 1..Len(widget.sends) :
    /\ Truthy(OptProp(panel.episodeCtx, "code"))
    /\ Truthy(widget.sends[i].action.payload.episodeCode)

\* Every action was sent to a widget mount for which onThreadChange had
\* reported a thread id.
SentAfterThread == \A i \in 1..Len(widget.sends) : widget.sends[i].threadSeen

\* C28 as stated: the action is delivered at most once per widget mount, is
\* never sent without a resolved episode code and never before a thread id
\* has been observed.
C28_AsStated ==
  /\ AtMostOncePerMount
  /\ SentWithCode
  /\ SentAfterThread

\* The action is never sent, nor scheduled, without a resolved episode code,
\* and only part_004 sends it.
C28_NeverWithoutCode ==
  /\ SentWithCode
  /\ ContextInjected =>
       panelVersion = "part_004" /\ Truthy(OptProp(panel.episodeCtx, "code"))

\* Until the chat is reset the action is delivered at most once.
C28_OnceBeforeReset == panel.widgetInstanceKey = 0 => AtMostOncePerMount

\* The widget of one mount has been given the action twice.
C28_DeliveredTwice == ~AtMostOncePerMount

\* The action was sent to a widget mount that had reported no thread id.
C28_SentBeforeThread == ~SentAfterThread

-----------------------------------------------------------------------------
(* C29 *)

\* An episode code was resolved and the mounted widget has reported a
\* thread, and the widget has not been given the context.
ContextOwed ==
  /\ panelVersion = "part_004"
  /\ panel.isMountedRef
  /\ Truthy(OptProp(panel.episodeCtx, "code"))
  /\ widget.threadSeen
  /\ DeliveredTo(panel.widgetInstanceKey) = {}

SendPending == \E i \in 1..Len(widget.sends) : widget.sends[i].outcome = "pending"

\* A send of the context is under way, or the flag is clear so that the
\* next onResponseStart sends it.
DeliveryAhead ==
  \/ widget.timers > 0
  \/ SendPending
  \/ ~panel.injectedRef

\* The step is the failure of a send that onThreadChange scheduled.
ThreadSendFails ==
  /\ SendSettles
  /\ \E i \in 1..Len(widget.sends) :
       /\ widget.sends[i].origin = "thread"
       /\ widget.sends[i].outcome = "pending"
       /\ widget'.sends[i].outcome = "failed"

\* The step is the failure of the fallback send of onResponseStart.
FallbackSendFails ==
  /\ SendSettles
  /\ \E i \in 1..Len(widget.sends) :
       /\ widget.sends[i].origin = "responseStart"
       /\ widget.sends[i].outcome = "pending"
       /\ widget'.sends[i].outcome = "failed"

\* C29 as stated, in its finite-run form: while the context is owed to the
\* widget a delivery is still ahead; no failure leaves it undelivered with
\* nothing that would send it again.
C29_AsStated == ContextOwed => DeliveryAhead

\* The first half of C29: the failure of the send scheduled from
\* onThreadChange clears the flag, and an onResponseStart that finds the
\* flag clear and a code resolved sends the action.
C29_ThreadFailureRetried ==
  [][/\ ThreadSendFails => ~panel'.injectedRef
     /\ (ResponseStart /\ panelVersion = "part_004" /\ MustInject(panel)) =>
          /\ Len(widget'.sends) = Len(widget.sends) + 1
          /\ widget'.sends[Len(widget'.sends)].origin = "responseStart"
          /\ widget'.sends[Len(widget'.sends)].outcome = "pending"]_vars

\* The failure of the fallback send leaves the flag set.
C29_FallbackFailureKeepsFlag ==
  [][FallbackSendFails => panel'.injectedRef = panel.injectedRef]_vars

\* The context is owed and nothing will send it: the fallback send has
\* failed and the flag is still set.
C29_Undelivered ==
  /\ ContextOwed
  /\ ~DeliveryAhead
  /\ \E i \in 1..Len(widget.sends) :
       /\ widget.sends[i].origin = "responseStart"
       /\ widget.sends[i].mount = panel.widgetInstanceKey
       /\ widget.sends[i].outcome = "failed"

\* The send of onThreadChange failed and onResponseStart has sent the
\* action again.
C29_Retried ==
  /\ Len(widget.sends) = 2
  /\ widget.sends[1].origin = "thread"
  /\ widget.sends[1].outcome = "failed"
  /\ widget.sends[2].origin = "responseStart"
  /\ widget.sends[2].outcome = "delivered"

-----------------------------------------------------------------------------
(* C31 *)

\* The overlay shows an error.
OverlayShowsError == Truthy(OverlayError(panel))

\* C31: errors.retryable is false in every state of the panel, and the
\* overlay is never given handleResetChat as its retry handler, whatever
\* error it shows.
C31_NeverRetryable ==
  /\ panel.errors.retryable = FALSE
  /\ ~OverlayOffersRetry(panel)

\* The overlay shows a script error over a session error, after a reset, and
\* offers no retry.
C31_Witness ==
  /\ OverlayShowsError
  /\ Truthy(panel.errors.script)
  /\ panel.widgetInstanceKey > 0
  /\ ~OverlayOffersRetry(panel)

\* The overlay shows the error of a failed session creation and offers no
\* retry.
C31_WitnessSession ==
  /\ OverlayShowsError
  /\ panel.errors.script = Null
  /\ Truthy(panel.errors.session)
  /\ ~panel.isInitializingSession
  /\ isWorkflowConfigured(panelConfig)
  /\ ~OverlayOffersRetry(panel)

-----------------------------------------------------------------------------
(* C32 *)

\* The response carries a Set-Cookie header.
SetsCookie == resp.setCookie # Null

\* The handler generated a caller id for the request: it passed the API-key
\* check and found no chatkit_session_id cookie with a value.
GeneratedIdentity == KeyConfigured /\ LacksSessionCookie

\* The kinds of response.
MissingKeyResponse == resp.status = 500 /\ log = <<"apiKey">>
MissingWorkflowResponse == ErrorResponse(400, MSG_MISSING_WORKFLOW) /\ calls = <<>>
GenericFailureResponse == ErrorResponse(500, MSG_UNEXPECTED) /\ reply = NoReply /\ calls # <<>>
SessionCreatedResponse == resp.status = 200 /\ reply # NoReply
UpstreamErrorResponse == reply # NoReply /\ resp.status # 200

\* C32: a response carries a Set-Cookie header exactly when the handler
\* generated a caller id for the request, on every kind of response; the
\* cookie names the id the handler used, and the response to a missing API
\* key carries none.
C32_CookieIffGenerated ==
  Answered =>
    /\ SetsCookie <=> GeneratedIdentity
    /\ SetsCookie =>
         /\ resp.setCookie.t = "str"
         /\ StoredValue(resp.setCookie.s) = encodeURIComponent(local.userId)
    /\ MissingKeyResponse => ~SetsCookie
    /\ \/ MissingKeyResponse
       \/ MissingWorkflowResponse
       \/ GenericFailureResponse
       \/ SessionCreatedResponse
       \/ UpstreamErrorResponse

\* An upstream error is passed on with the cookie of a new caller.
C32_Witness ==
  /\ Answered
  /\ UpstreamErrorResponse
  /\ GeneratedIdentity
  /\ SetsCookie

C32_WitnessMissingWorkflow ==
  Answered /\ MissingWorkflowResponse /\ GeneratedIdentity /\ SetsCookie

C32_WitnessGenericFailure ==
  Answered /\ GenericFailureResponse /\ GeneratedIdentity /\ SetsCookie

C32_WitnessSession ==
  Answered /\ SessionCreatedResponse /\ GeneratedIdentity /\ SetsCookie

\* A request without a cookie is answered that the API key is missing, with
\* no cookie.
C32_WitnessMissingKey ==
  Answered /\ MissingKeyResponse /\ LacksSessionCookie /\ ~SetsCookie

\* A request that returns its cookie is answered without one, whatever the
\* kind of response.
C32_WitnessReturning ==
  Answered /\ CarriesSessionCookie /\ GenericFailureResponse /\ ~SetsCookie

-----------------------------------------------------------------------------
(* C33 *)

\* The body supplies workflow.id as an empty string, or workflowId as an
\* empty string with no workflow.id.
EmptyWorkflowIdSupplied ==
  \/ BodyWorkflowDotId = Str(<<>>)
  \/ IsNullish(BodyWorkflowDotId) /\ BodyWorkflowId = Str(<<>>)

\* The first source of the chain workflow.id, workflowId, WORKFLOW_ID whose
\* value is neither null nor absent.
FirstSuppliedWorkflowId ==
  IF ~IsNullish(BodyWorkflowDotId) THEN BodyWorkflowDotId
  ELSE IF ~IsNullish(BodyWorkflowId) THEN BodyWorkflowId
  ELSE Str(env.workflowId)

\* The answer to an empty id, and what falls through.
EmptyIdRefused ==
  /\ EmptyWorkflowIdSupplied => MissingWorkflowResponse
  /\ local # NoLocals => local.resolvedWorkflowId = FirstSuppliedWorkflowId

\* C33 as stated: every request whose body supplies an empty workflow id is
\* answered 400 "Missing workflow id", and only null or absent values fall
\* through to the next source.
C33_AsStated == Answered => EmptyIdRefused

\* C33, amended: when OPENAI_API_KEY is set, a request whose body supplies an
\* empty workflow id is answered 400 "Missing workflow id" with no upstream
\* call, whatever the later sources hold, and only null or absent values
\* fall through to the next source.
C33_EmptyIdRefused == (Answered /\ KeyConfigured) => EmptyIdRefused

\* An empty workflow.id is refused although the body's workflowId and the
\* configuration both hold an id.
C33_Witness ==
  /\ Answered
  /\ KeyConfigured
  /\ BodyWorkflowDotId = Str(<<>>)
  /\ BodyWorkflowId = Str(<<"wf_alt">>)
  /\ env.workflowId = <<"wf_env">>
  /\ MissingWorkflowResponse

\* An empty workflowId is refused although the configuration holds an id.
C33_WitnessWorkflowId ==
  /\ Answered
  /\ KeyConfigured
  /\ BodyWorkflowDotId = Null
  /\ BodyWorkflowId = Str(<<>>)
  /\ env.workflowId = <<"wf_env">>
  /\ MissingWorkflowResponse

\* A null workflow.id and an absent workflowId fall through to the
\* configured id.
C33_WitnessFallsThrough ==
  /\ Answered
  /\ BodyWorkflowDotId = Null
  /\ BodyWorkflowId = Undef
  /\ calls # <<>>
  /\ calls[1].workflow.id = Str(<<"wf_env">>)

-----------------------------------------------------------------------------
(* C34 *)

\* The upstream API has answered 2xx with a body that holds no client
\* secret, and the broker has responded.
UpstreamGivesNoSecret ==
  /\ pc = "responded"
  /\ reply # NoReply
  /\ reply.status \in 200..299
  /\ \/ reply.body.form # "json"
     \/ ~Truthy(OptProp(reply.body.value, "client_secret"))

\* What the pending call of getClientSecret ends with, for a status text.
CallOutcome(statusText) ==
  GetClientSecretEnd(panelVersion, panel, widget.call.currentSecret,
                     FetchedResponse(resp, statusText))

\* The broker's answer and the panel's treatment of it, on the step in which
\* the panel receives the response.
NoSecretIsFailure ==
  /\ resp.status = 200
  /\ resp.body.client_secret = Null
  /\ \A statusText \in {<<>>, ReasonPhrase(resp.status)} :
       /\ CallOutcome(statusText).error = Str(MSG_MISSING_SECRET)
       /\ CallOutcome(statusText).secret = Null
  /\ panel.isMountedRef => panel'.errors.session = Str(MSG_MISSING_SECRET)
  /\ widget'.secret = widget.secret

\* The widget is handed a secret only if it is a non-empty string.
HandedRealSecret == widget'.secret # widget.secret => Truthy(widget'.secret)

C34_InEveryVersion ==
  [][PanelReceives =>
       /\ UpstreamGivesNoSecret => NoSecretIsFailure
       /\ HandedRealSecret]_vars

C34_WitnessSecret ==
  /\ version = "route"
  /\ panelVersion = "ChatKitPanel"
  /\ widget.secret = Str(<<"sk_abc">>)
  /\ panel.errors.session = Null

-----------------------------------------------------------------------------
(* C35 *)

\* The window message e is the one the listener handles in this step.
Handles(e) == WindowMessage /\ panel' = onMessage(panel, e)

\* The context is exactly what the message names: its trimmed code, and its
\* trimmed title and mp3 or none.
ContextIsMessage(e) ==
  panel'.episodeCtx =
    [t |-> "obj",
     code |-> Str(Trim(Prop(e.data, "code").s)),
     title |-> IF Truthy(Prop(e.data, "title")) /\ Trim(Prop(e.data, "title").s) # <<>>
               THEN Str(Trim(Prop(e.data, "title").s)) ELSE Undef,
     mp3 |-> IF Truthy(Prop(e.data, "mp3")) /\ Trim(Prop(e.data, "mp3").s) # <<>>
             THEN Str(Trim(Prop(e.data, "mp3").s)) ELSE Undef]

\* C35: in ChatKitPanel.tsx a window message changes the episode context
\* only if its type is le-episode-context, its origin is allowed and its
\* code is not blank; any other message leaves the context as it is; an
\* accepted message replaces the whole context, so that a title or mp3 it
\* does not name is dropped.
C35_MessageFilter ==
  [][\A e \in MessageEvents :
       Handles(e) =>
         IF AnnouncesEpisode(e) THEN ContextIsMessage(e)
         ELSE panel'.episodeCtx = panel.episodeCtx]_vars

\* A message that names a code only has replaced the context: the title and
\* the mp3 are gone, although the URL of the iframe names an mp3.
C35_Witness ==
  /\ panelVersion = "ChatKitPanel"
  /\ Truthy(SearchParamsGet(browser.search, "mp3"))
  /\ panel.episodeCtx = [t |-> "obj", code |-> Str(<<"E5">>), title |-> Undef,
                         mp3 |-> Undef]

\* The context of the URL is still in place after the messages that must be
\* ignored were handled.
C35_WitnessIgnored ==
  /\ panelVersion = "ChatKitPanel"
  /\ browser.effectFor # "none"
  /\ Truthy(OptProp(panel.episodeCtx, "code"))
  /\ ContextFields(panel.episodeCtx) = FieldsOfQuery(browser.search)

\* ---------------------------------------------------------------------------
\* C36: a session request carries the episode context of the moment the
\* request is made, and a context that arrives afterwards is not sent.
\* ---------------------------------------------------------------------------

\* The panel holds an episode context with a code.
EpisodeKnown == Truthy(OptProp(panel.episodeCtx, "code"))

\* A session request of the panel is in flight.
RequestPending == widget.call # NoCall

\* This step sends a session request.
RequestSent == widget.call = NoCall /\ widget'.call # NoCall

\* The episode fields of the request are those of the context before the step.
CarriesContextOf(ctx, payload) ==
  IF Truthy(OptProp(ctx, "code"))
    THEN /\ Prop(payload, "episodeCode") = ctx.code
         /\ Prop(payload, "title") = (IF Truthy(ctx.title) THEN ctx.title ELSE Undef)
         /\ Prop(payload, "mp3") = (IF Truthy(ctx.mp3) THEN ctx.mp3 ELSE Undef)
    ELSE /\ Prop(payload, "episodeCode") = Undef
         /\ Prop(payload, "title") = Undef
         /\ Prop(payload, "mp3") = Undef

\* C36 as stated: in the ChatKitPanel.tsx panel, once a session request has
\* been sent without episode fields, no later request carries the context.
C36_AsStated ==
  (panelVersion = "ChatKitPanel" /\ widget.sentBare /\ RequestPending)
    => ~CarriesEpisode(widget.call.payload)

\* C36: in the ChatKitPanel.tsx panel every session request carries the
\* episode fields of the context held when the request is made, the request
\* in flight keeps its body, and a step that changes the context sends
\* nothing and leaves the request and the session secret as they were; the
\* context is sent only with a later request of the widget.
C36_ContextAtRequest ==
  [][panelVersion = "ChatKitPanel" =>
       /\ RequestSent => CarriesContextOf(panel.episodeCtx, widget'.call.payload)
       /\ (RequestPending /\ widget'.call # NoCall) => widget'.call = widget.call
       /\ panel'.episodeCtx # panel.episodeCtx => widget' = widget]_vars

\* The context arrived while a request without episode fields was in flight.
C36_Witness ==
  /\ panelVersion = "ChatKitPanel"
  /\ RequestPending
  /\ ~CarriesEpisode(widget.call.payload)
  /\ EpisodeKnown

\* A refresh of a session that was created without episode fields carries a
\* context that arrived in between.
C36_WitnessLaterRequest ==
  /\ panelVersion = "ChatKitPanel"
  /\ widget.sentBare
  /\ RequestPending
  /\ Truthy(widget.call.currentSecret)
  /\ CarriesEpisode(widget.call.payload)

\* ---------------------------------------------------------------------------
\* C37: what the request_episode_context tool of part_003 returns.
\* ---------------------------------------------------------------------------

\* The agent has called request_episode_context and holds its answer.
EpisodeReturned ==
  /\ panelVersion = "part_003"
  /\ host.result # NoResult
  /\ "episodeCode" \in DOMAIN host.result

\* The tool answers with the fields of the context resolved on mount.
ReturnsResolved ==
  IsNullish(panel.episodeCtx) \/
    ContextFields(host.result) = ContextFields(panel.episodeCtx)

\* The code comes from the iframe's own URL: the referrer yields none.
CodeFromOwnUrl == ~ReferrerYieldsCode(browser) /\ OwnQueryYieldsCode(browser)

\* C37 as stated: the request_episode_context tool returns the resolved
\* episode fields, and when the code is taken from the iframe's own URL the
\* title and the mp3 it returns are those of that URL, never the referrer's.
C37_AsStated ==
  EpisodeReturned =>
    /\ ReturnsResolved
    /\ CodeFromOwnUrl => ContextFields(host.result) = FieldsOfQuery(browser.search)

\* The tool does return the context resolved on mount when there is one,
\* and the code always follows the precedence.
C37_ReturnsResolved ==
  EpisodeReturned =>
    /\ ReturnsResolved
    /\ ContextByPrecedence(browser) # Null =>
         ContextFields(host.result).code = ContextByPrecedence(browser).code

\* The tool has returned the code of the iframe's URL with a title or an
\* mp3 of the referrer.
C37_MixedAnswer ==
  /\ EpisodeReturned
  /\ CodeFromOwnUrl
  /\ ContextFields(host.result) # FieldsOfQuery(browser.search)

\* The tool has returned the three fields of the referrer.
C37_ReferrerAnswer ==
  /\ EpisodeReturned
  /\ ReferrerYieldsCode(browser)
  /\ ContextFields(host.result) = FieldsOfQuery(browser.referrer.query)

-----------------------------------------------------------------------------
(* The broker and a browser that holds several cookies for the site. *)

\* A cookie the browser holds: a name and a value.
Cookie(name, value) == [name |-> name, value |-> value]

\* The Cookie request header of a list of cookies, as browsers write it.
CookieHeaderOf(cookies) ==
  Str(Join([k \in 1..Len(cookies) |-> cookies[k].name \o <<"=">> \o cookies[k].value],
           <<";", " ">>))

\* The value of another cookie named chatkit_session_id, set for another
\* path of the site.
StaleId == <<"s","t","a","l","e">>

\* The lists of cookies a browser holding the session cookie `value` sends:
\* the cookie alone; a cookie of another name before it, after it, on both
\* sides; a second and an empty cookie of the same name after it and before
\* it.
CookieLists(value) ==
  LET session == Cookie(SESSION_COOKIE_NAME, value)
      theme == Cookie(<<"t","h","e","m","e">>, <<"d","a","r","k">>)
      stale == Cookie(SESSION_COOKIE_NAME, StaleId)
      empty == Cookie(SESSION_COOKIE_NAME, <<>>)
  IN {<<session>>, <<theme, session>>, <<session, theme>>,
      <<theme, session, theme>>, <<session, stale>>, <<stale, session>>,
      <<session, empty>>, <<empty, session>>}

\* The name=value pair of a Set-Cookie header, the part the browser returns.
IssuedPair(id, nodeEnv) == StoredValue(serializeSessionCookie(id, nodeEnv))

\* The browser holds no session cookie, or one issued by a runtime whose
\* crypto has no randomUUID (resolveUserId then draws a base-36 id).
CookieInit ==
  /\ version \in Versions
  /\ env \in Environments
  /\ \E id \in {Null} \cup {Str(RandomBase36(i)) : i \in 1..NumIds} :
       /\ issued = id
       /\ jar = IF id = Null THEN Null ELSE Str(IssuedPair(id.s, env.nodeEnv))
  /\ pc = "idle"
  /\ req = NoRequest
  /\ local = NoLocals
  /\ calls = <<>>
  /\ log = <<>>
  /\ reply = NoReply
  /\ resp = NoResponse
  /\ PanelAbsent

\* The browser sends a POST with the cookies it holds for the site.
ClientSendCookies ==
  /\ pc = "idle"
  /\ \E cookie \in IF jar = Null THEN CookieHeaders(Null)
                   ELSE {CookieHeaderOf(l) : l \in CookieLists(jar.s)},
        body \in RequestBodies :
       req' = [cookie |-> cookie, body |-> body]
  /\ pc' = "received"
  /\ UNCHANGED <<version, env, jar, issued, local, calls, log, reply, resp>>
  /\ UNCHANGED panelVars

CookieNext ==
  \/ ClientSendCookies
  \/ Receive
  \/ UpstreamRetry
  \/ UpstreamReply
  \/ FetchThrows
  \/ ClientReceive
  \/ CookieExpires

CookieSpec == CookieInit /\ [][CookieNext]_vars

-----------------------------------------------------------------------------
(* C38 *)

\* The handler has read the caller's identity from the request.
IdentityRead == pc \in {"fetching", "responded"} /\ local # NoLocals

\* The value of the first cookie of the list that has the name; <<>> when
\* there is none.
RECURSIVE FirstValue(_, _)
FirstValue(cookies, name) ==
  IF cookies = <<>> THEN <<>>
  ELSE IF Head(cookies).name = name THEN Head(cookies).value
  ELSE FirstValue(Tail(cookies), name)

\* The handler took the caller for a new one: it drew an id and sets the
\* cookie.
TakenForNew == local.sessionCookie # Null /\ IsUUID(local.userId)

\* C38: the value the browser stored from serializeSessionCookie comes back
\* from getCookieValue as the id that was generated, with other cookies
\* before or after it; of several cookies of the name the first is used,
\* and when the first has an empty value the caller is taken for a new one.
C38_CookieRoundTrip ==
  (IdentityRead /\ jar # Null) =>
    \A l \in CookieLists(jar.s) :
      req.cookie = CookieHeaderOf(l) =>
        LET first == FirstValue(l, SESSION_COOKIE_NAME)
        IN /\ first # <<>> => local.userId = first /\ local.sessionCookie = Null
           /\ first = jar.s => local.userId = issued.s
           /\ first = <<>> => TakenForNew

\* The id came back from between two other cookies.
C38_Witness ==
  /\ IdentityRead /\ jar # Null
  /\ \E l \in CookieLists(jar.s) :
       /\ Len(l) = 3
       /\ req.cookie = CookieHeaderOf(l)
  /\ local.userId = issued.s
  /\ IsUUID(issued.s)

\* A base-36 id came back.
C38_WitnessBase36 ==
  /\ IdentityRead /\ jar # Null
  /\ issued.s = RandomBase36(1)
  /\ local.userId = issued.s

\* Of two cookies of the name the first was used, not the browser's own.
C38_WitnessFirstOfTwo ==
  /\ IdentityRead /\ jar # Null
  /\ req.cookie = CookieHeaderOf(<<Cookie(SESSION_COOKIE_NAME, StaleId),
                                   Cookie(SESSION_COOKIE_NAME, jar.s)>>)
  /\ local.userId = StaleId

\* An empty first cookie of the name hid the id that follows it.
C38_WitnessEmptyFirst ==
  /\ IdentityRead /\ jar # Null
  /\ req.cookie = CookieHeaderOf(<<Cookie(SESSION_COOKIE_NAME, <<>>),
                                   Cookie(SESSION_COOKIE_NAME, jar.s)>>)
  /\ TakenForNew
=============================================================================
